---- MODULE Spec2Model ----
(***************************************************************************)
(* HubSpot activity analytics: scope filters, terminal tagging, pipeline   *)
(* and terminal metrics, scoring, meeting/email deduplication and column   *)
(* normalization, modelled from the pandas code.                           *)
(*                                                                         *)
(* A DataFrame is a record [cols, rows]: cols is the set of column names,  *)
(* rows the sequence of rows in index order, each row a function on cols.  *)
(* The output of a groupby/merge is a bag of rows: one entry per output    *)
(* row, the row order (pandas sorts by group key) is not modelled.         *)
(* A cell is NaN (the empty tuple: NaN, None, NaT) or V(x), the one-tuple  *)
(* of its value; a boolean column holds plain booleans.                    *)
(***************************************************************************)
EXTENDS Bags, FiniteSets, Integers, Sequences, TLC

VARIABLES
    pc,     \* position of the run: which call was made last
    inp,    \* the table the run was started with
    df,     \* the table as transformed so far
    ret     \* the value returned by the last metric call

vars == <<pc, inp, df, ret>>

NaN == <<>>
V(x) == <<x>>
None == "None"

\* a call that raised, and what a run holds before any metric was called
Raise(e) == [raise |-> e]
raised(x) == "raise" \in DOMAIN x
KeyError == Raise("KeyError")
Nothing == [nothing |-> TRUE]

(***************************************************************************)
(* pandas primitives                                                       *)
(***************************************************************************)
Frame(cols, rows) == [cols |-> cols, rows |-> rows]

\* DataFrame.empty: any axis of length 0
empty(d) == Len(d.rows) = 0 \/ d.cols = {}

isna(v) == v = NaN

\* Series.isin(values): NaN is a member of no list of names
isin(series, values) ==
    [i \in DOMAIN series |-> ~isna(series[i]) /\ series[i][1] \in values]

\* df.loc[mask]: the rows whose mask is True, in index order
loc(d, mask) ==
    LET F[i \in 0..Len(d.rows)] ==
            IF i = 0 THEN <<>>
            ELSE IF mask[i] THEN Append(F[i - 1], d.rows[i]) ELSE F[i - 1]
    IN Frame(d.cols, F[Len(d.rows)])

\* df[col] = series: add or overwrite one column
assign(d, col, series) ==
    Frame(d.cols \cup {col},
          [i \in DOMAIN d.rows |->
              [c \in d.cols \cup {col} |->
                  IF c = col THEN series[i] ELSE d.rows[i][c]]])

\* the sum of the values of a function with a finite domain
RECURSIVE Sum(_)
Sum(f) ==
    IF DOMAIN f = {} THEN 0
    ELSE LET x == CHOOSE y \in DOMAIN f : TRUE
         IN f[x] + Sum([y \in DOMAIN f \ {x} |-> f[y]])

\* number of rows of a bag of rows that satisfy P
RowsWhere(bag, P(_)) ==
    Sum([r \in DOMAIN bag |-> IF P(r) THEN bag[r] ELSE 0])

\* all sequences over S of length at most n
SeqUpTo(S, n) == UNION {[1..k -> S] : k \in 0..n}

(***************************************************************************)
(* src/parsing/normalize.py: safe_column                                   *)
(***************************************************************************)
safe_column(d, col) ==
    IF col \in d.cols
    THEN [i \in DOMAIN d.rows |-> d.rows[i][col]]
    ELSE [i \in DOMAIN d.rows |-> NaN]

(***************************************************************************)
(* src/parsing/filters.py                                                  *)
(***************************************************************************)
REPS_IN_SCOPE ==
    {"Brad Sherman", "Lance Mitton", "Dave Borkowski",
     "Jake Lynch", "Alex Gonzalez", "Owen Labombard"}

PIPELINES_IN_SCOPE ==
    {"Growth Pipeline (Upsell/Cross-sell)", "Acquisition (New Customer)",
     "Retention (Existing Product)", "Calyx Distribution"}

TERMINAL_STAGES ==
    "Closed Won" :> "CLOSED_WON" @@
    "Closed Lost" :> "CLOSED_LOST" @@
    "NCR" :> "NCR" @@
    "Sales Order Created in NS" :> "SALES_ORDER_CREATED"

WIN_STAGES == {"Closed Won", "Sales Order Created in NS"}

OWNER_CANDIDATES ==
    <<"hubspot_owner_name", "activity_assigned_to", "full_name",
      "opp_owner", "deal_owner", "activity_created_by">>

\* first candidate that is a column, None when there is none
_find_owner_col(d) ==
    LET hits == {i \in DOMAIN OWNER_CANDIDATES : OWNER_CANDIDATES[i] \in d.cols}
    IN IF hits = {} THEN None
       ELSE OWNER_CANDIDATES[CHOOSE i \in hits : \A j \in hits : i <= j]

_ensure_owner_col(d) ==
    IF empty(d) THEN d
    ELSE IF "hubspot_owner_name" \in d.cols THEN d
    ELSE LET source_col == _find_owner_col(d)
         IN IF source_col # None
            THEN assign(d, "hubspot_owner_name", safe_column(d, source_col))
            ELSE d

\* the filter keeping every row that has any owner name at all
filter_by_rep_notna(d, reps) ==
    IF empty(d) THEN d
    ELSE LET e == _ensure_owner_col(d)
             col == safe_column(e, "hubspot_owner_name")
         IN loc(e, [i \in DOMAIN col |-> ~isna(col[i])])

\* reps = {} is the call without the argument (reps or REPS_IN_SCOPE)
filter_by_rep(d, reps) ==
    IF empty(d) THEN d
    ELSE LET e == _ensure_owner_col(d)
             scope == IF reps = {} THEN REPS_IN_SCOPE ELSE reps
             col == safe_column(e, "hubspot_owner_name")
             mask == isin(col, scope)
         IN loc(e, mask)

filter_by_pipeline(d, pipeline_col, pipelines) ==
    IF empty(d) THEN d
    ELSE IF pipeline_col \notin d.cols THEN d
    ELSE LET scope == IF pipelines = {} THEN PIPELINES_IN_SCOPE ELSE pipelines
             mask == isin(safe_column(d, pipeline_col), scope)
         IN loc(d, mask)

\* Series.map(dict): the value of the key, NaN for anything that is no key
map(series, dict) ==
    [i \in DOMAIN series |->
        IF ~isna(series[i]) /\ series[i][1] \in DOMAIN dict
        THEN V(dict[series[i][1]]) ELSE NaN]

\* the tagging with the win stages taken for the terminal stages
tag_terminal_stages_win(d, stage_col) ==
    IF empty(d) THEN d
    ELSE LET stage == safe_column(d, stage_col)
             tagged == assign(d, "is_terminal", isin(stage, WIN_STAGES))
         IN assign(tagged, "terminal_status", map(stage, TERMINAL_STAGES))

tag_terminal_stages(d, stage_col) ==
    IF empty(d) THEN d
    ELSE LET stage == safe_column(d, stage_col)
             tagged == assign(d, "is_terminal", isin(stage, DOMAIN TERMINAL_STAGES))
         IN assign(tagged, "terminal_status", map(stage, TERMINAL_STAGES))

\* df.loc[df["is_terminal"]]: KeyError when the tagging left the table as it
\* was (an empty table gets no is_terminal column)
get_terminal_deals(d) ==
    LET t == IF "is_terminal" \notin d.cols
             THEN tag_terminal_stages(d, "deal_stage") ELSE d
    IN IF "is_terminal" \notin t.cols THEN KeyError
       ELSE loc(t, [i \in DOMAIN t.rows |-> t.rows[i]["is_terminal"]])

\* the active deals taken for all the deals of the tagged table
get_active_deals_all(d) ==
    LET t == IF "is_terminal" \notin d.cols
             THEN tag_terminal_stages(d, "deal_stage") ELSE d
    IN IF "is_terminal" \notin t.cols THEN KeyError
       ELSE t

get_active_deals(d) ==
    LET t == IF "is_terminal" \notin d.cols
             THEN tag_terminal_stages(d, "deal_stage") ELSE d
    IN IF "is_terminal" \notin t.cols THEN KeyError
       ELSE loc(t, [i \in DOMAIN t.rows |-> ~t.rows[i]["is_terminal"]])

\* the composite filter without the pipeline step
apply_deal_filters_no_pipeline(d) ==
    tag_terminal_stages(filter_by_rep(d, {}), "deal_stage")

apply_deal_filters(d) ==
    tag_terminal_stages(
        filter_by_pipeline(filter_by_rep(d, {}), "pipeline", {}),
        "deal_stage")

apply_activity_filters(d) == filter_by_rep(d, {})

(***************************************************************************)
(* pandas groupby / merge on the tables of the metrics                     *)
(***************************************************************************)
\* the group key of row i: its values in the grouping columns
KeyOf(d, by, i) == [c \in by |-> d.rows[i][c]]

\* groupby(by, dropna=...): the distinct keys; dropna drops a key with a NaN
GroupKeys(d, by, dropna) ==
    {k \in {KeyOf(d, by, i) : i \in DOMAIN d.rows} :
        ~dropna \/ \A c \in by : ~isna(k[c])}

\* groupby(by).size().reset_index(name=name): one row per key
groupby_size(d, by, dropna, name) ==
    {k @@ (name :> V(Cardinality({i \in DOMAIN d.rows : KeyOf(d, by, i) = k}))) :
        k \in GroupKeys(d, by, dropna)}

\* pd.merge(left, right, on=on, how="inner"), as merge_outer without the
\* rows of the keys that one side lacks
merge_inner(left, right, on, lcols, rcols) ==
    SetToBag({l @@ r : <<l, r>> \in
        {p \in left \X right : \A c \in on : p[1][c] = p[2][c]}})

\* pd.merge(left, right, on=on, how="outer") of two tables with distinct
\* rows: lcols and rcols are the value columns of left and of right
merge_outer(left, right, on, lcols, rcols) ==
    LET same(l, r) == \A c \in on : l[c] = r[c]
        both == {l @@ r : <<l, r>> \in {p \in left \X right : same(p[1], p[2])}}
        lonly == {l @@ [c \in rcols |-> NaN] :
                    l \in {x \in left : \A r \in right : ~same(x, r)}}
        ronly == {r @@ [c \in lcols |-> NaN] :
                    r \in {x \in right : \A l \in left : ~same(l, x)}}
    IN SetToBag(both) (+) SetToBag(lonly) (+) SetToBag(ronly)

\* DataFrame.fillna(value) on a bag of rows
fillna(bag, value) ==
    LET fill(r) == [c \in DOMAIN r |-> IF isna(r[c]) THEN value ELSE r[c]]
        filled == {fill(r) : r \in DOMAIN bag}
    IN [f \in filled |-> Sum([r \in {x \in DOMAIN bag : fill(x) = f} |-> bag[r]])]

\* Series.astype(int) on the columns cols of a bag of rows without NaN there
astype_int(bag, cols) ==
    LET cast(r) == [c \in DOMAIN r |-> IF c \in cols THEN r[c][1] ELSE r[c]]
    IN [t \in {cast(r) : r \in DOMAIN bag} |->
           Sum([r \in {x \in DOMAIN bag : cast(x) = t} |-> bag[r]])]

\* the table a metric returns: a bag of rows
Table(bag) == [rows |-> bag]

\* pd.DataFrame(columns=[...]) and pd.DataFrame(): a table without rows
NoRows == Table(EmptyBag)

(***************************************************************************)
(* src/metrics/pipeline.py: win_rate.  win_rate is kept in units of 1e-4,  *)
(* the four decimals (result["wins"] / result["terminal_count"]).round(4)  *)
(* leaves.                                                                 *)
(***************************************************************************)
RoundDecimals == 4

\* 10 ** n
RECURSIVE Pow10(_)
Pow10(n) == IF n = 0 THEN 1 ELSE 10 * Pow10(n - 1)

\* truncation instead of rounding
round_floor(num, den, decimals) == (num * Pow10(decimals)) \div den

\* (num / den).round(decimals) in units of 10 ** -decimals: to the nearest,
\* a tie to the even neighbour
round(num, den, decimals) ==
    LET scaled == num * Pow10(decimals)
        q == scaled \div den
        rem == scaled % den
    IN IF 2 * rem > den THEN q + 1
       ELSE IF 2 * rem < den THEN q
       ELSE IF q % 2 = 0 THEN q ELSE q + 1

win_rate(deals) ==
    IF empty(deals) \/ "is_terminal" \notin deals.cols THEN NoRows
    ELSE LET terminal == loc(deals, [i \in DOMAIN deals.rows |->
                                        deals.rows[i]["is_terminal"]])
         IN IF empty(terminal) THEN NoRows
            ELSE IF "deal_stage" \notin terminal.cols THEN KeyError
            ELSE LET is_won == isin(safe_column(terminal, "deal_stage"), WIN_STAGES)
                     group == {"pipeline", "hubspot_owner_name"} \cap terminal.cols
                     members(k) == {i \in DOMAIN terminal.rows :
                                        KeyOf(terminal, group, i) = k}
                     agg(k) == k @@ ("wins" :> Cardinality({i \in members(k) : is_won[i]}))
                                 @@ ("terminal_count" :> Cardinality(members(k)))
                     rate(r) == r @@ ("win_rate" :>
                                 round(r["wins"], r["terminal_count"], RoundDecimals))
                 IN IF group = {} THEN NoRows
                    ELSE Table(SetToBag({rate(agg(k)) :
                                    k \in GroupKeys(terminal, group, FALSE)}))

(***************************************************************************)
(* src/metrics/pipeline.py: active_pipeline_value.  avg_value, the mean of *)
(* the amounts, is kept as the pair <<total_value, deal_count>>.           *)
(***************************************************************************)
active_pipeline_value(deals) ==
    LET active == get_active_deals(deals)
    IN IF raised(active) THEN active
       ELSE IF empty(active) THEN NoRows
       ELSE IF "pipeline" \notin active.cols THEN KeyError
       ELSE LET raw == safe_column(active, "amount")
                amount == [i \in DOMAIN raw |-> IF isna(raw[i]) THEN 0 ELSE raw[i][1]]
                members(k) == {i \in DOMAIN active.rows :
                                   KeyOf(active, {"pipeline"}, i) = k}
                total(k) == Sum([i \in members(k) |-> amount[i]])
                agg(k) == k @@ ("deal_count" :> Cardinality(members(k)))
                            @@ ("total_value" :> total(k))
                            @@ ("avg_value" :> <<total(k), Cardinality(members(k))>>)
            IN Table(SetToBag({agg(k) : k \in GroupKeys(active, {"pipeline"}, FALSE)}))

(***************************************************************************)
(* src/metrics/terminal.py: closed_won_vs_lost_by_rep                      *)
(***************************************************************************)
closed_won_vs_lost_by_rep(deals) ==
    LET terminal == get_terminal_deals(deals)
        owner == "hubspot_owner_name"
    IN IF raised(terminal) THEN terminal
       ELSE IF empty(terminal) THEN NoRows
       ELSE IF owner \notin terminal.cols THEN NoRows
       ELSE IF "terminal_status" \notin terminal.cols THEN KeyError
       ELSE LET status == safe_column(terminal, "terminal_status")
                won == groupby_size(
                           loc(terminal, [i \in DOMAIN status |-> status[i] = V("CLOSED_WON")]),
                           {owner}, TRUE, "closed_won")
                lost == groupby_size(
                           loc(terminal, [i \in DOMAIN status |-> status[i] = V("CLOSED_LOST")]),
                           {owner}, TRUE, "closed_lost")
                result == astype_int(
                              fillna(merge_outer(won, lost, {owner},
                                                 {"closed_won"}, {"closed_lost"}), V(0)),
                              {"closed_won", "closed_lost"})
                net(r) == r @@ ("net" :> r["closed_won"] - r["closed_lost"])
            IN Table([n \in {net(r) : r \in DOMAIN result} |->
                   Sum([r \in {x \in DOMAIN result : net(x) = n} |-> result[r]])])

(***************************************************************************)
(* src/metrics/scoring.py.  A count column holds plain integers: the       *)
(* count tables are filled with 0 and cast to int where they are built.    *)
(***************************************************************************)
WEIGHTS ==
    [meetings |-> 5, calls |-> 3, emails |-> 1,
     completed_tasks |-> 2, overdue_tasks |-> -2]

\* a constant column
Constant(d, value) == [i \in DOMAIN d.rows |-> value]

\* adds each missing metric column, filled with 0
_ensure_metric_cols(d) ==
    LET missing == DOMAIN WEIGHTS \ d.cols
    IN Frame(d.cols \cup missing,
             [i \in DOMAIN d.rows |->
                [c \in d.cols \cup missing |->
                    IF c \in missing THEN 0 ELSE d.rows[i][c]]])

\* sum(df[c] * w for c, w in WEIGHTS.items()) of one row
WeightedSum(r) == Sum([c \in DOMAIN WEIGHTS |-> r[c] * WEIGHTS[c]])

\* the rows of d with the key k in the columns by
Members(d, by, k) == {i \in DOMAIN d.rows : KeyOf(d, by, i) = k}

compute_activity_score(activity_counts, owner_col) ==
    IF empty(activity_counts) THEN NoRows
    ELSE LET fallback == {k \in 1..2 :
                            <<"owner_name", "activity_assigned_to">>[k]
                                \in activity_counts.cols}
             owner == IF owner_col \in activity_counts.cols \/ fallback = {}
                      THEN owner_col
                      ELSE <<"owner_name", "activity_assigned_to">>[
                               CHOOSE k \in fallback : \A j \in fallback : k <= j]
             d == _ensure_metric_cols(activity_counts)
             totals(k) == k @@ [mc \in DOMAIN WEIGHTS |->
                                 Sum([i \in Members(d, {owner}, k) |-> d.rows[i][mc]])]
             scored(k) == totals(k) @@ ("activity_score" :> WeightedSum(totals(k)))
         IN IF owner \notin d.cols THEN KeyError
            ELSE Table(SetToBag({scored(k) : k \in GroupKeys(d, {owner}, FALSE)}))

\* the per-period score with the groupby left at its default dropna=True
compute_activity_score_by_period_dropna(activity_counts, period_col, owner_col) ==
    IF empty(activity_counts) \/ period_col \notin activity_counts.cols THEN NoRows
    ELSE LET d == _ensure_metric_cols(activity_counts)
             by == {owner_col, period_col}
             score(k) == k @@ ("activity_score" :>
                            Sum([i \in Members(d, by, k) |-> WeightedSum(d.rows[i])]))
         IN IF owner_col \notin d.cols THEN KeyError
            ELSE Table(SetToBag({score(k) : k \in GroupKeys(d, by, TRUE)}))

compute_activity_score_by_period(activity_counts, period_col, owner_col) ==
    IF empty(activity_counts) \/ period_col \notin activity_counts.cols THEN NoRows
    ELSE LET d == _ensure_metric_cols(activity_counts)
             by == {owner_col, period_col}
             score(k) == k @@ ("activity_score" :>
                            Sum([i \in Members(d, by, k) |-> WeightedSum(d.rows[i])]))
         IN IF owner_col \notin d.cols THEN KeyError
            ELSE Table(SetToBag({score(k) : k \in GroupKeys(d, by, FALSE)}))

(***************************************************************************)
(* Strings that the code takes apart.  A text is the sequence of its       *)
(* tokens: " " is whitespace, every other token a run of characters that   *)
(* the code never splits ("[Gong]", "Re:", "Intro Call").  A timestamp is  *)
(* <<day, minute>>, its calendar date the day.                             *)
(***************************************************************************)
RECURSIVE lstrip(_)
lstrip(t) == IF t # <<>> /\ Head(t) = " " THEN lstrip(Tail(t)) ELSE t

RECURSIVE rstrip(_)
rstrip(t) ==
    IF t # <<>> /\ t[Len(t)] = " " THEN rstrip(SubSeq(t, 1, Len(t) - 1)) ELSE t

\* str.strip()
strip(t) == rstrip(lstrip(t))

\* str.startswith(prefix)
startswith(t, prefix) ==
    Len(t) >= Len(prefix) /\ SubSeq(t, 1, Len(prefix)) = prefix

\* t[len(prefix):]
removeprefix(t, prefix) == SubSeq(t, Len(prefix) + 1, Len(t))

\* len(str): the characters of all tokens
len(t) == Sum([i \in DOMAIN t |-> Len(t[i])])

\* Series.fillna("").astype(str) of one cell
fillna_str(cell) == IF isna(cell) THEN <<>> ELSE cell[1]

\* pd.to_datetime(...).dt.date of one cell of a datetime column
dt_date(cell) == IF isna(cell) THEN NaN ELSE V(cell[1][1])

\* list(s): the characters of a string
Chars(s) == [i \in 1..Len(s) |-> SubSeq(s, i, i)]

\* "".join(chars)
RECURSIVE Join(_)
Join(chars) == IF chars = <<>> THEN "" ELSE Head(chars) \o Join(Tail(chars))

UPPERCASE == Chars("ABCDEFGHIJKLMNOPQRSTUVWXYZ")
LOWERCASE == Chars("abcdefghijklmnopqrstuvwxyz")
DIGITS == Chars("0123456789")

\* [A-Z]
UPPER == {UPPERCASE[i] : i \in DOMAIN UPPERCASE}

\* [a-z0-9]
LOWER_OR_DIGIT ==
    {LOWERCASE[i] : i \in DOMAIN LOWERCASE} \cup {DIGITS[i] : i \in DOMAIN DIGITS}

\* the lower-case letter of every upper-case letter
LOWER ==
    [c \in UPPER |->
        LOWERCASE[CHOOSE i \in DOMAIN UPPERCASE : UPPERCASE[i] = c]]

char_lower(c) == IF c \in DOMAIN LOWER THEN LOWER[c] ELSE c

\* str.lower()
str_lower(s) == Join([i \in 1..Len(s) |-> char_lower(SubSeq(s, i, i))])

(***************************************************************************)
(* src/parsing/normalize.py: meeting deduplication                         *)
(***************************************************************************)
DATE_COLUMNS ==
    {"created_date", "close_date", "activity_date", "meeting_start_time",
     "meeting_end_time", "completed_at", "due_date", "last_modified_date",
     "create_date", "last_activity_date", "next_activity_date"}

\* the priorities in the opposite order
OUTCOME_PRIORITY_ASCENDING ==
    "Completed" :> 1 @@ "No Show" :> 2 @@ "Canceled" :> 3 @@
    "Rescheduled" :> 4 @@ "Scheduled" :> 5 @@ "" :> 0

OUTCOME_PRIORITY ==
    "Completed" :> 5 @@ "No Show" :> 4 @@ "Canceled" :> 3 @@
    "Rescheduled" :> 2 @@ "Scheduled" :> 1 @@ "" :> 0

MEETING_PREFIXES ==
    << <<"[Gong]", " ">>, <<"[Gong]">>, <<"Google Meet:", " ">>, <<"Google Meet:">> >>

\* the name with only the first prefix of the list looked for
_norm_meeting_name_first(name) ==
    LET n == IF isna(name) THEN <<>> ELSE strip(name[1])
    IN strip(IF startswith(n, MEETING_PREFIXES[1])
             THEN removeprefix(n, MEETING_PREFIXES[1]) ELSE n)

_norm_meeting_name(name) ==
    LET n0 == IF isna(name) THEN <<>> ELSE strip(name[1])
        step(n, prefix) == IF startswith(n, prefix) THEN removeprefix(n, prefix) ELSE n
        F[k \in 0..Len(MEETING_PREFIXES)] ==
            IF k = 0 THEN n0 ELSE step(F[k - 1], MEETING_PREFIXES[k])
    IN strip(F[Len(MEETING_PREFIXES)])

_safe_str(val) == IF isna(val) THEN <<>> ELSE strip(val[1])

\* min(values, key=len): the first of the shortest values
_best_value_shortest(values) ==
    values[CHOOSE i \in DOMAIN values : \A j \in DOMAIN values :
                \/ len(values[i]) < len(values[j])
                \/ len(values[i]) = len(values[j]) /\ i <= j]

\* max(non_empty, key=len): the first of the longest non-empty values
_best_value(values) ==
    LET non_empty == {i \in DOMAIN values : values[i] # <<>>}
    IN IF non_empty = {} THEN <<>>
       ELSE values[CHOOSE i \in non_empty : \A j \in non_empty :
                \/ len(values[i]) > len(values[j])
                \/ len(values[i]) = len(values[j]) /\ i <= j]

\* OUTCOME_PRIORITY.get(o.strip(), 0)
outcome_rank(o) ==
    LET key == strip(o)
    IN IF key = <<>> THEN OUTCOME_PRIORITY[""]
       ELSE IF Len(key) = 1 /\ key[1] \in DOMAIN OUTCOME_PRIORITY
            THEN OUTCOME_PRIORITY[key[1]] ELSE 0

\* the append that never finds the key: a new group for every row
group_append_new(groups, key, idx) ==
    Append(groups, [key |-> key, indices |-> <<idx>>])

\* named_groups[key].append(idx): a dict in insertion order
group_append(groups, key, idx) ==
    IF \E g \in DOMAIN groups : groups[g].key = key
    THEN [g \in DOMAIN groups |->
            IF groups[g].key = key
            THEN [key |-> key, indices |-> Append(groups[g].indices, idx)]
            ELSE groups[g]]
    ELSE Append(groups, [key |-> key, indices |-> <<idx>>])

\* the key of the groups of blank-name rows
BlankName == <<"_blank">>

\* the groups of deduplicate_meetings, in the order of the dict: steps 1-3
meeting_groups(d, date_col) ==
    LET n == Len(d.rows)
        norm(i) == _norm_meeting_name(d.rows[i]["meeting_name"])
        start_date(i) == dt_date(d.rows[i][date_col])
        rep(i) == IF "hubspot_owner_name" \in d.cols
                  THEN _safe_str(d.rows[i]["hubspot_owner_name"]) ELSE <<>>
        comp(i) == IF "company_name" \in d.cols
                   THEN _safe_str(d.rows[i]["company_name"]) ELSE <<>>
        Named[i \in 0..n] ==
            IF i = 0 THEN <<>>
            ELSE IF norm(i) # <<>>
                 THEN group_append(Named[i - 1], <<norm(i), start_date(i), rep(i)>>, i)
                 ELSE Named[i - 1]
        named == Named[n]
        \* named_lookup[(date, rep, company)]: the last group that wrote it
        hits(i) == {g \in DOMAIN named :
                        /\ named[g].key[2] = start_date(i)
                        /\ named[g].key[3] = rep(i)
                        /\ comp(i) # <<>>
                        /\ \E k \in DOMAIN named[g].indices :
                                comp(named[g].indices[k]) = comp(i)}
        last(S) == CHOOSE g \in S : \A h \in S : h <= g
        All[i \in 0..n] ==
            IF i = 0 THEN named
            ELSE IF norm(i) = <<>>
                 THEN IF hits(i) # {}
                      THEN group_append(All[i - 1], named[last(hits(i))].key, i)
                      ELSE group_append(All[i - 1],
                                        <<BlankName, start_date(i), rep(i)>>, i)
                 ELSE All[i - 1]
    IN All[n]

\* the re-parse of a merged column: pd.to_datetime(errors="coerce") of the
\* columns of DATE_COLUMNS (the columns named *_date, *_time, *_at of the
\* tables here are all in it)
is_date_col(col) == col \in DATE_COLUMNS

\* step 4 for a group of more than one row.  A datetime column holds
\* timestamps, whose str() all have one length: the longest non-empty
\* value is the first that is not NaT, and to_datetime parses it back.
merge_group(d, group, has_gong) ==
    LET idx == group.indices
        cells(col) == [k \in DOMAIN idx |-> d.rows[idx[k]][col]]
        outcomes == [k \in DOMAIN idx |-> fillna_str(d.rows[idx[k]]["meeting_outcome"])]
        first_set(col) == {k \in DOMAIN idx : ~isna(cells(col)[k])}
    IN [col \in d.cols \cup {"has_gong"} |->
          IF col = "meeting_outcome"
          THEN V(outcomes[CHOOSE k \in DOMAIN idx : \A j \in DOMAIN idx :
                    \/ outcome_rank(outcomes[k]) > outcome_rank(outcomes[j])
                    \/ outcome_rank(outcomes[k]) = outcome_rank(outcomes[j]) /\ k <= j])
          ELSE IF col = "has_gong"
          THEN \E k \in DOMAIN idx : has_gong[idx[k]]
          ELSE IF col = "meeting_name"
          THEN V(IF group.key[1] # BlankName THEN group.key[1] ELSE <<>>)
          ELSE IF is_date_col(col)
          THEN IF first_set(col) = {} THEN NaN
               ELSE cells(col)[CHOOSE k \in first_set(col) :
                        \A j \in first_set(col) : k <= j]
          ELSE V(_best_value([k \in DOMAIN idx |-> fillna_str(cells(col)[k])]))]

\* the dedup without the grouping: every row its own record
deduplicate_meetings_none(d) ==
    IF empty(d) THEN d
    ELSE LET date_col == IF "meeting_start_time" \in d.cols
                         THEN "meeting_start_time" ELSE "activity_date"
         IN IF "meeting_name" \notin d.cols \/ date_col \notin d.cols THEN d
            ELSE assign(d, "has_gong",
                    [i \in DOMAIN d.rows |->
                        startswith(fillna_str(d.rows[i]["meeting_name"]), <<"[Gong]">>)])

deduplicate_meetings(d) ==
    IF empty(d) THEN d
    ELSE LET date_col == IF "meeting_start_time" \in d.cols
                         THEN "meeting_start_time" ELSE "activity_date"
         IN IF "meeting_name" \notin d.cols \/ date_col \notin d.cols THEN d
            ELSE LET has_gong == [i \in DOMAIN d.rows |->
                        startswith(fillna_str(d.rows[i]["meeting_name"]), <<"[Gong]">>)]
                     groups == meeting_groups(d, date_col)
                     flagged == assign(d, "has_gong", has_gong)
                 IN Frame(d.cols \cup {"has_gong"},
                          [g \in DOMAIN groups |->
                              IF Len(groups[g].indices) = 1
                              THEN flagged.rows[groups[g].indices[1]]
                              ELSE merge_group(d, groups[g], has_gong)])

(***************************************************************************)
(* src/parsing/normalize.py: email deduplication                           *)
(***************************************************************************)
\* str.lower() of a text
lower(t) == [i \in DOMAIN t |-> str_lower(t[i])]

\* the direction tags of r'^\[Gong (Out|In)\]'
GONG_TAGS == {"[Gong Out]", "[Gong In]"}

\* the prefixes of r'^(Re:\s*|Fwd:\s*|FW:\s*|Fw:\s*)+'
REPLY_PREFIXES == {"Re:", "Fwd:", "FW:", "Fw:"}

\* str.contains(r'^\[Gong (Out|In)\]')
is_gong(subject) == subject # <<>> /\ Head(subject) \in GONG_TAGS

\* the clean subject with the reply prefixes stripped as well
clean_subject_root(subject) ==
    LET RECURSIVE unreply(_)
        unreply(t) == IF t # <<>> /\ Head(t) \in {"Re:", "Fwd:", "FW:", "Fw:"}
                      THEN unreply(lstrip(Tail(t))) ELSE t
    IN strip(unreply(strip(IF is_gong(subject) THEN lstrip(Tail(subject)) ELSE subject)))

\* str.replace(r'^\[Gong (Out|In)\]\s*', '').str.strip()
clean_subject(subject) ==
    strip(IF is_gong(subject) THEN lstrip(Tail(subject)) ELSE subject)

\* str.replace(r'^(Re:\s*|Fwd:\s*|FW:\s*|Fw:\s*)+', '')
RECURSIVE strip_reply_prefixes(_)
strip_reply_prefixes(t) ==
    IF t # <<>> /\ Head(t) \in REPLY_PREFIXES
    THEN strip_reply_prefixes(lstrip(Tail(t))) ELSE t

thread_subject(clean) == lower(strip(strip_reply_prefixes(clean)))

\* s[:n] for a text of at most n characters; a longer one is cut at the
\* last token that fits
RECURSIVE truncate(_, _)
truncate(t, n) ==
    IF len(t) <= n THEN t ELSE truncate(SubSeq(t, 1, Len(t) - 1), n)

SummarySubjectChars == 80

\* a column computed once for all rows: the table of the values of f
list(f) == f @@ <<>>

\* the rows of a sequence picked by a sequence of positions
Pick(rows, order) == [k \in DOMAIN order |-> rows[order[k]]]

\* the positions 1..n in the order given by before (a strict total order)
SortedBy(n, before(_, _)) ==
    [k \in 1..n |->
        CHOOSE i \in 1..n : Cardinality({j \in 1..n : before(j, i)}) = k - 1]

\* the positions of a sequence that satisfy P, in order
Where(n, P(_)) ==
    LET F[i \in 0..n] ==
            IF i = 0 THEN <<>>
            ELSE IF P(i) THEN Append(F[i - 1], i) ELSE F[i - 1]
    IN F[n]

\* a timestamp is earlier than another; NaT is earlier than none
earlier(a, b) ==
    /\ ~isna(a)
    /\ \/ isna(b)
       \/ a[1][1] < b[1][1]
       \/ a[1][1] = b[1][1] /\ a[1][2] < b[1][2]

\* a timestamp is later than another; NaT is later than none
later(a, b) ==
    /\ ~isna(a)
    /\ \/ isna(b)
       \/ a[1][1] > b[1][1]
       \/ a[1][1] = b[1][1] /\ a[1][2] > b[1][2]

\* the temporary columns of one email row
email_keys(d, date_col, r) ==
    LET raw == fillna_str(r["email_subject"])
        text(col) == IF col \in d.cols THEN lower(strip(fillna_str(r[col]))) ELSE <<>>
    IN [is_gong |-> is_gong(raw),
        clean_subject |-> clean_subject(raw),
        email_date |-> dt_date(r[date_col]),
        co |-> text("company_name"),
        from |-> text("email_from_address"),
        dt |-> r[date_col]]

\* phase 1 without the sort on _is_gong: the first row of a key is kept
email_phase1_unsorted(d, date_col) ==
    LET n == Len(d.rows)
        key == list([i \in 1..n |-> email_keys(d, date_col, d.rows[i])])
        has_subject(i) == key[i].clean_subject # <<>>
        no_subject(i) == ~has_subject(i)
        with_subject == Where(n, has_subject)
        same(i, j) ==
            /\ key[i].clean_subject = key[j].clean_subject
            /\ key[i].email_date = key[j].email_date
            /\ key[i].co = key[j].co
            /\ key[i].from = key[j].from
        first(k) == \A m \in 1..(k - 1) : ~same(with_subject[m], with_subject[k])
        kept == Where(Len(with_subject), first)
    IN Pick(with_subject, kept) \o Where(n, no_subject)

\* phase 1: the rows left by the removal of the Gong copies, as positions
\* of d.rows.  The sort on _is_gong keeps the order of equal rows (the
\* sort of a short table is an insertion sort).
email_phase1(d, date_col) ==
    LET n == Len(d.rows)
        key == list([i \in 1..n |-> email_keys(d, date_col, d.rows[i])])
        has_subject(i) == key[i].clean_subject # <<>>
        no_subject(i) == ~has_subject(i)
        plain(i) == has_subject(i) /\ ~key[i].is_gong
        tagged(i) == has_subject(i) /\ key[i].is_gong
        with_subject == Where(n, plain) \o Where(n, tagged)
        same(i, j) ==
            /\ key[i].clean_subject = key[j].clean_subject
            /\ key[i].email_date = key[j].email_date
            /\ key[i].co = key[j].co
            /\ key[i].from = key[j].from
        first(k) == \A m \in 1..(k - 1) : ~same(with_subject[m], with_subject[k])
        kept == Where(Len(with_subject), first)
    IN Pick(with_subject, kept) \o Where(n, no_subject)

\* phase 2 on the positions left by phase 1: the thread records, then the
\* rows without a thread subject.  pandas emits the thread records sorted
\* by their key; here they come in the order of their most recent email.
email_phase2(d, date_col, after_gong) ==
    LET n == Len(after_gong)
        row == [k \in 1..n |-> d.rows[after_gong[k]]]
        key == list([k \in 1..n |-> email_keys(d, date_col, row[k])])
        thread == list([k \in 1..n |-> thread_subject(key[k].clean_subject)])
        has_thread(k) == thread[k] # <<>>
        no_thread(k) == ~has_thread(k)
        threadable == Where(n, has_thread)
        non_threadable == Where(n, no_thread)
        \* sort_values("_dt", ascending=False): NaT last, equal dates in order
        before(a, b) ==
            \/ later(key[threadable[a]].dt, key[threadable[b]].dt)
            \/ /\ ~later(key[threadable[b]].dt, key[threadable[a]].dt)
               /\ a < b
        sorted == Pick(threadable, SortedBy(Len(threadable), before))
        same(a, b) == thread[a] = thread[b] /\ key[a].co = key[b].co
        leads(k) == \A m \in 1..(k - 1) : ~same(sorted[m], sorted[k])
        leaders == Where(Len(sorted), leads)
        part(k) ==
            [date |-> key[k].dt,
             direction |-> IF "email_direction" \in d.cols
                           THEN row[k]["email_direction"] ELSE V(<<>>),
             subject |-> truncate(key[k].clean_subject, SummarySubjectChars)]
        record(k) ==
            LET members == Pick(sorted,
                                Where(Len(sorted), LAMBDA m : same(sorted[m], sorted[k])))
            IN row[sorted[k]]
               @@ ("thread_depth" :> Len(members))
               @@ ("thread_summary" :>
                    IF Len(members) > 1
                    THEN V([m \in DOMAIN members |-> part(members[m])])
                    ELSE V(<<>>))
        single(k) == row[k] @@ ("thread_depth" :> 1) @@ ("thread_summary" :> NaN)
    IN [k \in DOMAIN leaders |-> record(leaders[k])]
       \o [k \in DOMAIN non_threadable |-> single(non_threadable[k])]

\* the dedup with the thread records added to the emails instead of
\* replacing them
deduplicate_emails_keep(d) ==
    IF empty(d) THEN d
    ELSE LET date_col == IF "activity_date" \in d.cols
                         THEN "activity_date" ELSE "create_date"
         IN IF "email_subject" \notin d.cols \/ date_col \notin d.cols THEN d
            ELSE Frame(d.cols \cup {"thread_depth", "thread_summary"},
                       email_phase2(d, date_col, email_phase1(d, date_col))
                       \o [i \in DOMAIN d.rows |->
                              d.rows[i] @@ ("thread_depth" :> 1)
                                        @@ ("thread_summary" :> NaN)])

deduplicate_emails(d) ==
    IF empty(d) THEN d
    ELSE LET date_col == IF "activity_date" \in d.cols
                         THEN "activity_date" ELSE "create_date"
         IN IF "email_subject" \notin d.cols \/ date_col \notin d.cols THEN d
            ELSE Frame(d.cols \cup {"thread_depth", "thread_summary"},
                       email_phase2(d, date_col, email_phase1(d, date_col)))

(***************************************************************************)
(* src/parsing/normalize.py: column normalization.  A raw table keeps its  *)
(* columns by position, since two of them may carry one label:             *)
(* [columns, dtypes, rows], a row being the sequence of its cells.  A      *)
(* header is a string, taken apart into its characters.                    *)
(***************************************************************************)
RawFrame(columns, dtypes, rows) == [columns |-> columns, dtypes |-> dtypes, rows |-> rows]

\* DataFrame.empty of a raw table
raw_empty(d) == d.rows = <<>> \/ d.columns = <<>>

AttributeError == Raise("AttributeError")

\* the characters of [\s\-\.\/\(\)]
SEPARATORS == {" ", "-", ".", "/", "(", ")"}

\* re.sub(r"[\s\-\.\/\(\)]+", "_", s)
RECURSIVE sub_separators(_)
sub_separators(s) ==
    IF s = <<>> THEN <<>>
    ELSE IF Head(s) \in SEPARATORS
         THEN IF Len(s) > 1 /\ s[2] \in SEPARATORS
              THEN sub_separators(Tail(s))
              ELSE <<"_">> \o sub_separators(Tail(s))
         ELSE <<Head(s)>> \o sub_separators(Tail(s))

\* re.sub(r"([a-z0-9])([A-Z])", r"\1_\2", s)
RECURSIVE sub_camel(_)
sub_camel(s) ==
    IF Len(s) < 2 THEN s
    ELSE IF s[1] \in LOWER_OR_DIGIT /\ s[2] \in UPPER
         THEN <<s[1], "_">> \o sub_camel(Tail(s))
         ELSE <<s[1]>> \o sub_camel(Tail(s))

\* re.sub(r"_+", "_", s)
RECURSIVE sub_underscores(_)
sub_underscores(s) ==
    IF s = <<>> THEN <<>>
    ELSE IF Head(s) = "_" /\ Len(s) > 1 /\ s[2] = "_"
         THEN sub_underscores(Tail(s))
         ELSE <<Head(s)>> \o sub_underscores(Tail(s))

\* s.strip("_")
RECURSIVE strip_underscores(_)
strip_underscores(s) ==
    IF s # <<>> /\ Head(s) = "_" THEN strip_underscores(Tail(s))
    ELSE IF s # <<>> /\ s[Len(s)] = "_"
         THEN strip_underscores(SubSeq(s, 1, Len(s) - 1))
         ELSE s

to_snake_case(name) ==
    LET s1 == sub_separators(strip(Chars(name)))
        s2 == sub_camel(s1)
        s3 == sub_underscores(s2)
    IN Join(strip_underscores(Chars(str_lower(Join(s3)))))

COLUMN_ALIASES ==
    "create_date" :> "created_date" @@
    "associated_company_name" :> "company_name" @@
    "hub_spot_team" :> "hubspot_team" @@
    "opp_owner" :> "hubspot_owner_name" @@
    "opp_type_no_blanks" :> "opp_type" @@
    "is_deal_closed?" :> "is_deal_closed" @@
    "activity_assigned_to" :> "activity_assigned_to" @@
    "activity_created_by" :> "activity_created_by" @@
    "body_preview_truncated" :> "body_preview" @@
    "created_at" :> "created_date" @@
    "completed_at" :> "completed_at" @@
    "last_modified_at" :> "last_modified_date" @@
    "notes_preview" :> "notes_preview" @@
    "last_modified_date" :> "last_modified_date" @@
    "email_id" :> "email_id" @@
    "email_from_address" :> "email_from_address" @@
    "email_to_address" :> "email_to_address" @@
    "number_of_email_opens" :> "email_opens" @@
    "number_of_email_clicks" :> "email_clicks" @@
    "number_of_email_replies" :> "email_replies" @@
    "email_open_rate" :> "email_open_rate" @@
    "email_click_rate" :> "email_click_rate" @@
    "email_reply_rate" :> "email_reply_rate" @@
    "email_cc_address" :> "email_cc_address" @@
    "first_name_activity_assigned_to" :> "owner_first_name" @@
    "last_name_activity_assigned_to" :> "owner_last_name" @@
    "created_by_user_id" :> "created_by_user_id" @@
    "updated_by_user_id" :> "updated_by_user_id" @@
    "note_id" :> "note_id" @@
    "note_body" :> "note_body" @@
    "deal_name" :> "deal_name" @@
    "first_name_ticket_owner" :> "ticket_owner_first_name"

NUMERIC_COLUMNS ==
    {"amount", "deal_id", "company_id", "call_duration", "ticket_id",
     "opp_age", "forecast_probability", "call_id"}

\* str.endswith(suffix)
endswith(s, suffix) ==
    Len(s) >= Len(suffix) /\ SubSeq(s, Len(s) - Len(suffix) + 1, Len(s)) = suffix

\* the k-th column of a label gets the suffix _k, the first none
_deduplicate_columns(cols) ==
    [i \in DOMAIN cols |->
        LET seen == Cardinality({j \in 1..(i - 1) : cols[j] = cols[i]})
        IN IF seen = 0 THEN cols[i] ELSE cols[i] \o "_" \o ToString(seen + 1)]

\* DataFrame.rename(columns=COLUMN_ALIASES)
rename(cols, aliases) ==
    [i \in DOMAIN cols |-> IF cols[i] \in DOMAIN aliases THEN aliases[cols[i]] ELSE cols[i]]

\* df.loc[:, mask]: the columns at the positions kept
take_columns(d, keep) ==
    RawFrame(Pick(d.columns, keep), Pick(d.dtypes, keep),
             [r \in DOMAIN d.rows |-> Pick(d.rows[r], keep)])

normalize_columns(d) ==
    IF raw_empty(d) THEN d
    ELSE LET snake == [i \in DOMAIN d.columns |-> to_snake_case(d.columns[i])]
             cols == rename(_deduplicate_columns(snake), COLUMN_ALIASES)
             named(i) == cols[i] # "" /\ ~startswith(cols[i], "unnamed")
         IN take_columns([d EXCEPT !.columns = cols], Where(Len(cols), named))

\* the strings that strip_whitespace replaces by NaN
NAN_STRINGS == {<<"nan">>, <<>>, <<"None">>, <<"none">>}

\* astype(str).str.strip() and the replace, of one cell of an object column
strip_cell(cell) ==
    LET text == IF isna(cell) THEN <<"nan">> ELSE strip(cell[1])
    IN IF text \in NAN_STRINGS THEN NaN ELSE V(text)

\* a label carried by two columns: df[col] is then a DataFrame, which has
\* no dtype
has_duplicates(cols) == \E i, j \in DOMAIN cols : i < j /\ cols[i] = cols[j]

\* a column at a time, each cell by f
map_columns(d, chosen(_), f(_), dtype) ==
    [d EXCEPT
        !.dtypes = [i \in DOMAIN d.columns |-> IF chosen(i) THEN dtype ELSE d.dtypes[i]],
        !.rows = [r \in DOMAIN d.rows |->
                    [i \in DOMAIN d.columns |->
                        IF chosen(i) THEN f(d.rows[r][i]) ELSE d.rows[r][i]]]]

strip_whitespace(d) ==
    IF raw_empty(d) THEN d
    ELSE IF has_duplicates(d.columns) THEN AttributeError
    ELSE map_columns(d, LAMBDA i : d.dtypes[i] = "object", strip_cell, "object")

\* the texts that pd.to_datetime parses, with their timestamps
DATETIME_TEXTS == "2024-01-05" :> <<5, 0>>

\* the texts that pd.to_numeric parses, with their numbers
NUMERIC_TEXTS == "12" :> 12

\* pd.to_datetime(errors="coerce") of one cell of an object column
to_datetime(cell) ==
    IF isna(cell) THEN NaN
    ELSE IF Len(cell[1]) = 1 /\ cell[1][1] \in DOMAIN DATETIME_TEXTS
         THEN V(DATETIME_TEXTS[cell[1][1]]) ELSE NaN

\* pd.to_numeric(errors="coerce") of one cell of an object column
to_numeric(cell) ==
    IF isna(cell) THEN NaN
    ELSE IF Len(cell[1]) = 1 /\ cell[1][1] \in DOMAIN NUMERIC_TEXTS
         THEN V(NUMERIC_TEXTS[cell[1][1]]) ELSE NaN

\* a column that is already datetime64 stays as it is; no column of the
\* tables here is both a date and a number
coerce_dates(d) ==
    IF raw_empty(d) THEN d
    ELSE LET is_date(i) ==
                 \/ d.columns[i] \in DATE_COLUMNS
                 \/ endswith(d.columns[i], "_date")
                 \/ endswith(d.columns[i], "_time")
                 \/ endswith(d.columns[i], "_at")
         IN map_columns(d, LAMBDA i : is_date(i) /\ d.dtypes[i] = "object",
                        to_datetime, "datetime64")

coerce_numerics(d) ==
    IF raw_empty(d) THEN d
    ELSE LET is_numeric(i) ==
                 \/ d.columns[i] \in NUMERIC_COLUMNS
                 \/ endswith(d.columns[i], "_amount")
                 \/ endswith(d.columns[i], "_duration")
         IN map_columns(d, LAMBDA i : is_numeric(i) /\ d.dtypes[i] = "object",
                        to_numeric, "float64")

normalize_dataframe(d) ==
    IF raw_empty(d) THEN d
    ELSE LET stripped == strip_whitespace(normalize_columns(d))
         IN IF raised(stripped) THEN stripped
            ELSE coerce_numerics(coerce_dates(stripped))

(***************************************************************************)
(* src/utils/dates.py: add_period_columns.  The activity tables are the    *)
(* normalized ones: a date column is datetime64, its cells timestamps      *)
(* <<day, minute>> or NaN (NaT), and pd.to_datetime leaves them as they    *)
(* are.  Day 1 is Monday 2024-01-01; a period key is the day number of its *)
(* first day.                                                              *)
(***************************************************************************)
\* the first days of the months of 2024
MONTH_STARTS == <<1, 32, 61, 92, 122, 153, 183, 214, 245, 275, 306, 336>>

\* 0 for a Monday
weekday(day) == (day - 1) % 7

\* Period("W-MON").start_time: the anchored week ends on its Monday
week_start(day) == day + ((7 - weekday(day)) % 7) - 6

\* Period("M").start_time
month_start(day) ==
    MONTH_STARTS[CHOOSE m \in DOMAIN MONTH_STARTS :
        /\ MONTH_STARTS[m] <= day
        /\ \A n \in DOMAIN MONTH_STARTS : MONTH_STARTS[n] <= day => n <= m]

add_period_columns(d, date_col) ==
    IF empty(d) \/ date_col \notin d.cols THEN d
    ELSE LET dt == safe_column(d, date_col)
             day(i) == dt[i][1][1]
             period_day == [i \in DOMAIN dt |-> dt_date(dt[i])]
             period_week == [i \in DOMAIN dt |->
                                IF isna(dt[i]) THEN NaN ELSE V(week_start(day(i)))]
             period_month == [i \in DOMAIN dt |->
                                 IF isna(dt[i]) THEN NaN ELSE V(month_start(day(i)))]
         IN assign(assign(assign(d, "period_day", period_day),
                          "period_week", period_week),
                   "period_month", period_month)

(***************************************************************************)
(* src/metrics/activity.py.  A count table is its columns and the bag of   *)
(* its rows; the order of the rows of a merge is not kept.                 *)
(***************************************************************************)
DATE_CANDIDATES ==
    <<"activity_date", "meeting_start_time", "created_date",
      "create_date", "timestamp", "date">>

\* df.select_dtypes(include=["datetime64"]).columns: the columns that
\* coerce_dates made datetime64
datetime_columns(d) ==
    {c \in d.cols : \/ c \in DATE_COLUMNS
                    \/ endswith(c, "_date") \/ endswith(c, "_time") \/ endswith(c, "_at")}

\* the tables here have at most one datetime64 column besides the candidates
_resolve_date_col(d) ==
    LET hits == {i \in DOMAIN DATE_CANDIDATES : DATE_CANDIDATES[i] \in d.cols}
    IN IF hits # {}
       THEN DATE_CANDIDATES[CHOOSE i \in hits : \A j \in hits : i <= j]
       ELSE IF datetime_columns(d) # {} THEN CHOOSE c \in datetime_columns(d) : TRUE
       ELSE None

ACTIVITY_OWNER_CANDIDATES == <<"hubspot_owner_name", "activity_assigned_to", "owner_name">>

_resolve_owner_col(cols) ==
    LET hits == {i \in DOMAIN ACTIVITY_OWNER_CANDIDATES :
                    ACTIVITY_OWNER_CANDIDATES[i] \in cols}
    IN IF hits # {}
       THEN ACTIVITY_OWNER_CANDIDATES[CHOOSE i \in hits : \A j \in hits : i <= j]
       ELSE "hubspot_owner_name"

\* a count table
Counted(cols, bag) == [cols |-> cols, rows |-> bag]

\* pd.DataFrame()
NoFrame == Frame({}, <<>>)

\* the counting with the groups of a null owner or period left out
_count_by_rep_period_dropna(d, period_col, value_name) ==
    LET owner == _resolve_owner_col(d.cols)
    IN IF empty(d) \/ period_col \notin d.cols
       THEN Counted({owner, period_col, value_name}, EmptyBag)
       ELSE IF owner \notin d.cols THEN KeyError
       ELSE Counted({owner, period_col, value_name},
                    SetToBag(groupby_size(d, {owner, period_col}, TRUE, value_name)))

_count_by_rep_period(d, period_col, value_name) ==
    LET owner == _resolve_owner_col(d.cols)
    IN IF empty(d) \/ period_col \notin d.cols
       THEN Counted({owner, period_col, value_name}, EmptyBag)
       ELSE IF owner \notin d.cols THEN KeyError
       ELSE Counted({owner, period_col, value_name},
                    SetToBag(groupby_size(d, {owner, period_col}, FALSE, value_name)))

_prepare(d, activity_type) ==
    IF empty(d) THEN d
    ELSE LET date_col == _resolve_date_col(d)
         IN IF date_col = None THEN d
            ELSE assign(add_period_columns(d, date_col), "activity_type",
                        Constant(d, V(activity_type)))

char_upper(c) ==
    IF \E u \in UPPER : LOWER[u] = c THEN CHOOSE u \in UPPER : LOWER[u] = c ELSE c

\* str.upper() of a text
upper(t) == [i \in DOMAIN t |->
                Join([k \in 1..Len(t[i]) |-> char_upper(SubSeq(t[i], k, k))])]

STATUS_CANDIDATES == <<"task_status", "status", "hs_task_status">>
COMPLETED_STATUSES == {<<"COMPLETED">>, <<"COMPLETE">>, <<"DONE">>}
OVERDUE_STATUSES == {<<"OVERDUE">>, <<"PAST_DUE">>, <<"DEFERRED">>}
DUE_CANDIDATES == <<"due_date", "hs_task_due_date">>

\* pd.Timestamp.now(): the morning of Wednesday 2024-01-10
Now == <<10, 540>>

\* timestamp < timestamp; a comparison with NaT is False
before(cell, ts) ==
    /\ ~isna(cell)
    /\ \/ cell[1][1] < ts[1]
       \/ cell[1][1] = ts[1] /\ cell[1][2] < ts[2]

\* the first name of the list that is a column, None when there is none
first_column(d, names) ==
    LET hits == {i \in DOMAIN names : names[i] \in d.cols}
    IN IF hits = {} THEN None
       ELSE names[CHOOSE i \in hits : \A j \in hits : i <= j]

\* the split with a past due date alone making a task overdue
_split_tasks_past_due(tasks) ==
    IF empty(tasks) THEN <<NoFrame, NoFrame>>
    ELSE LET t == _prepare(tasks, "task")
             status_col == first_column(t, STATUS_CANDIDATES)
         IN IF status_col = None THEN <<t, NoFrame>>
            ELSE LET status == safe_column(t, status_col)
                     up == list([i \in DOMAIN status |->
                              strip(upper(IF isna(status[i]) THEN <<"nan">> ELSE status[i][1]))])
                     completed_mask == [i \in DOMAIN up |-> up[i] \in COMPLETED_STATUSES]
                     due_col == first_column(t, DUE_CANDIDATES)
                     past_due(i) == due_col # None /\ before(t.rows[i][due_col], Now)
                     overdue_mask == [i \in DOMAIN up |->
                                         up[i] \in OVERDUE_STATUSES \/ past_due(i)]
                 IN <<loc(t, completed_mask), loc(t, overdue_mask)>>

_split_tasks(tasks) ==
    IF empty(tasks) THEN <<NoFrame, NoFrame>>
    ELSE LET t == _prepare(tasks, "task")
             status_col == first_column(t, STATUS_CANDIDATES)
         IN IF status_col = None THEN <<t, NoFrame>>
            ELSE LET status == safe_column(t, status_col)
                     up == list([i \in DOMAIN status |->
                              strip(upper(IF isna(status[i]) THEN <<"nan">> ELSE status[i][1]))])
                     completed_mask == [i \in DOMAIN up |-> up[i] \in COMPLETED_STATUSES]
                     due_col == first_column(t, DUE_CANDIDATES)
                     past_due(i) == due_col # None /\ before(t.rows[i][due_col], Now)
                     overdue_mask == [i \in DOMAIN up |->
                                         \/ up[i] \in OVERDUE_STATUSES
                                         \/ past_due(i) /\ ~completed_mask[i]]
                 IN <<loc(t, completed_mask), loc(t, overdue_mask)>>

METRIC_COLS == <<"meetings", "calls", "emails", "completed_tasks", "overdue_tasks">>

PERIOD_COLS == [daily |-> "period_day", weekly |-> "period_week", monthly |-> "period_month"]

\* the frames joined with how="inner"
RECURSIVE merge_frames_inner(_, _, _)
merge_frames_inner(merged, frames, on) ==
    IF frames = <<>> THEN merged
    ELSE LET f == Head(frames)
         IN IF ~(on \subseteq f.cols) THEN KeyError
            ELSE merge_frames_inner(
                    Counted(merged.cols \cup f.cols,
                            merge_inner(DOMAIN merged.rows, DOMAIN f.rows, on,
                                        merged.cols \ on, f.cols \ on)),
                    Tail(frames), on)

\* pd.merge(merged, f, on=on, how="outer") over the frames, left to right
RECURSIVE merge_frames(_, _, _)
merge_frames(merged, frames, on) ==
    IF frames = <<>> THEN merged
    ELSE LET f == Head(frames)
         IN IF ~(on \subseteq f.cols) THEN KeyError
            ELSE merge_frames(
                    Counted(merged.cols \cup f.cols,
                            merge_outer(DOMAIN merged.rows, DOMAIN f.rows, on,
                                        merged.cols \ on, f.cols \ on)),
                    Tail(frames), on)

\* merged[mc].fillna(0).astype(int) for a column of the table, 0 for the rest
fill_metric_cols(merged) ==
    LET mcs == {METRIC_COLS[i] : i \in DOMAIN METRIC_COLS}
        fill(r) == [c \in DOMAIN r \cup mcs |->
                       IF c \notin mcs THEN r[c]
                       ELSE IF c \notin DOMAIN r \/ isna(r[c]) THEN 0 ELSE r[c][1]]
    IN Counted(merged.cols \cup mcs, SetToBag({fill(r) : r \in DOMAIN merged.rows}))

\* the table of one grain; sources are the five tables in the order of
\* METRIC_COLS
counts_of_grain(sources, period_col) ==
    LET counted == list([i \in DOMAIN METRIC_COLS |->
                       _count_by_rep_period(sources[i], period_col, METRIC_COLS[i])])
        frames == SelectSeq(counted, LAMBDA c : raised(c) \/ DOMAIN c.rows # {})
    IN IF \E i \in DOMAIN counted : raised(counted[i]) THEN KeyError
       ELSE IF frames = <<>> THEN Counted({}, EmptyBag)
       ELSE LET owner == _resolve_owner_col(frames[1].cols)
                merged == merge_frames(frames[1], Tail(frames), {owner, period_col})
            IN IF raised(merged) THEN merged ELSE fill_metric_cols(merged)

\* emails: pd.DataFrame | None = None
NoTable == [none |-> TRUE]
is_none(x) == "none" \in DOMAIN x

count_activities(calls, meetings, tasks, emails) ==
    LET split == _split_tasks(tasks)
        email_df == IF ~is_none(emails) /\ ~empty(emails) THEN _prepare(emails, "email")
                    ELSE NoFrame
        sources == <<_prepare(meetings, "meeting"), _prepare(calls, "call"), email_df,
                     _prepare(split[1], "completed_task"),
                     _prepare(split[2], "overdue_task")>>
        result == [label \in DOMAIN PERIOD_COLS |->
                      counts_of_grain(sources, PERIOD_COLS[label])]
    IN IF \E label \in DOMAIN result : raised(result[label]) THEN KeyError
       ELSE result

(***************************************************************************)
(* src/parsing/normalize.py: the owner mapping.  The cells are texts; a    *)
(* user id and a name of the tables of the code (HUBSPOT_UID_TO_NAME,      *)
(* REPS_IN_SCOPE) are strings, Join(text) being the string of a text.      *)
(***************************************************************************)
HUBSPOT_UID_TO_NAME ==
    "56564763" :> "Alex Gonzalez" @@
    "56562506" :> "Brad Sherman" @@
    "119721604" :> "Dave Borkowski" @@
    "56564944" :> "Jake Lynch" @@
    "79617483" :> "Lance Mitton" @@
    "85412002" :> "Owen Labombard"

\* the text of a string: one token, none for the empty string
text(s) == IF s = "" THEN <<>> ELSE <<s>>

\* the cleaning without the float suffix handled
_clean_uid_str(val) ==
    IF isna(val) \/ Join(val[1]) = "" THEN ""
    ELSE Join(strip(val[1]))

_clean_uid(val) ==
    IF isna(val) \/ Join(val[1]) = "" THEN ""
    ELSE LET s == Join(strip(val[1]))
         IN IF endswith(s, ".0") THEN SubSeq(s, 1, Len(s) - 2) ELSE s

\* uid_map.get(_clean_uid(x), "")
uid_lookup(uid_map, val) ==
    LET uid == _clean_uid(val)
    IN V(text(IF uid \in DOMAIN uid_map THEN uid_map[uid] ELSE ""))

\* str(row.get(col, "")).strip(): NaN is the text "nan"
row_str(d, i, col) ==
    IF col \notin d.cols THEN <<>>
    ELSE IF isna(d.rows[i][col]) THEN <<"nan">> ELSE strip(d.rows[i][col][1])

build_uid_map_from_meetings(meetings_df) ==
    IF empty(meetings_df) THEN HUBSPOT_UID_TO_NAME
    ELSE IF ~({"first_name", "last_name", "activity_assigned_to"} \subseteq meetings_df.cols)
         THEN HUBSPOT_UID_TO_NAME
    ELSE LET name(i) == Join(strip(row_str(meetings_df, i, "first_name") \o <<" ">>
                                     \o row_str(meetings_df, i, "last_name")))
             uid(i) == _clean_uid(meetings_df.rows[i]["activity_assigned_to"])
             F[i \in 0..Len(meetings_df.rows)] ==
                 IF i = 0 THEN HUBSPOT_UID_TO_NAME
                 ELSE IF name(i) \in REPS_IN_SCOPE /\ uid(i) # ""
                      THEN (uid(i) :> name(i)) @@ F[i - 1]
                      ELSE F[i - 1]
         IN F[Len(meetings_df.rows)]

\* df.get(col, pd.Series("", ...)).fillna("").astype(str).str.strip()
name_column(d, col) ==
    [i \in DOMAIN d.rows |->
        IF col \notin d.cols \/ isna(d.rows[i][col]) THEN <<>>
        ELSE strip(d.rows[i][col][1])]

\* (first + " " + last).str.strip()
full_name(d, first_col, last_col) ==
    LET first == name_column(d, first_col)
        last == name_column(d, last_col)
    IN [i \in DOMAIN d.rows |-> V(strip(first[i] \o <<" ">> \o last[i]))]

REP_LAST_NAMES == {"Sherman", "Labombard", "Lynch", "Borkowski", "Gonzalez", "Mitton"}

\* df[df["hubspot_owner_name"] != ""]
drop_unowned(d) ==
    loc(d, [i \in DOMAIN d.rows |-> d.rows[i]["hubspot_owner_name"] # V(<<>>)])

apply_owner_mapping(d, uid_map, tab_type) ==
    IF empty(d) THEN d
    ELSE IF tab_type \in {"meetings", "tickets"}
         THEN assign(d, "hubspot_owner_name", full_name(d, "first_name", "last_name"))
    ELSE IF tab_type = "calls"
         THEN LET uid_col == IF "activity_assigned_to" \in d.cols
                             THEN "activity_assigned_to" ELSE "hubspot_owner_name"
              IN IF uid_col \notin d.cols THEN KeyError
                 ELSE assign(d, "hubspot_owner_name",
                             [i \in DOMAIN d.rows |-> uid_lookup(uid_map, d.rows[i][uid_col])])
    ELSE IF tab_type = "tasks"
         THEN IF "full_name" \in d.cols
              THEN assign(d, "hubspot_owner_name", safe_column(d, "full_name"))
              ELSE d
    ELSE IF tab_type = "emails"
         THEN LET first_col == first_column(d, <<"owner_first_name", "first_name">>)
                  last_col == first_column(d, <<"owner_last_name", "last_name">>)
              IN IF first_col # None /\ last_col # None
                 THEN LET named == assign(d, "hubspot_owner_name",
                                          full_name(d, first_col, last_col))
                      IN loc(named, [i \in DOMAIN d.rows |->
                                Join(row_str(d, i, last_col)) \in REP_LAST_NAMES])
                 ELSE IF "activity_assigned_to" \in d.cols
                 THEN drop_unowned(assign(d, "hubspot_owner_name",
                          [i \in DOMAIN d.rows |->
                              uid_lookup(uid_map, d.rows[i]["activity_assigned_to"])]))
                 ELSE d
    ELSE IF tab_type = "notes"
         THEN IF "activity_assigned_to" \in d.cols
              THEN drop_unowned(assign(d, "hubspot_owner_name",
                       [i \in DOMAIN d.rows |->
                           uid_lookup(uid_map, d.rows[i]["activity_assigned_to"])]))
              ELSE d
    ELSE d

(***************************************************************************)
(* The deal run of main.py load_all: the deals table goes through          *)
(* apply_deal_filters (or tag_terminal_stages alone), then the metrics of  *)
(* pipeline_summary and terminal_summary are computed on it.               *)
(***************************************************************************)
MaxDeals == 2
MaxWinDeals == 3

\* the values a column of the enumerated input tables takes
ColumnValues ==
    [hubspot_owner_name |->
        {V("Brad Sherman"), V("Lance Mitton"), V("Pat Outsider"), NaN},
     pipeline |-> {V("Calyx Distribution"), V("Legacy Pipeline")},
     deal_stage |->
        {V("Closed Won"), V("Closed Lost"), V("NCR"),
         V("Sales Order Created in NS"), V("Negotiation")}]

\* a narrower choice, for groups of three and more deals
WinColumnValues ==
    [hubspot_owner_name |-> {V("Brad Sherman"), NaN},
     pipeline |-> {V("Calyx Distribution")},
     deal_stage |-> {V("Closed Won"), V("Closed Lost"), V("Negotiation")}]

DealColumnSets ==
    {{"hubspot_owner_name", "pipeline", "deal_stage"},
     {"hubspot_owner_name", "deal_stage"},
     {"pipeline", "deal_stage"},
     {"hubspot_owner_name", "pipeline"}}

\* the rows over the columns cols with the values of dom
RECURSIVE RowsOf(_, _)
RowsOf(cols, dom) ==
    IF cols = {} THEN {<<>>}
    ELSE LET c == CHOOSE x \in cols : TRUE
         IN {r @@ (c :> v) : r \in RowsOf(cols \ {c}, dom), v \in dom[c]}

\* the tables of at most n rows over one of the column sets
Tables(colsets, dom, n) ==
    {Frame(cols, rows) : <<cols, rows>> \in
        UNION {{cols} \X SeqUpTo(RowsOf(cols, dom), n) : cols \in colsets}}

Init ==
    /\ inp \in Tables(DealColumnSets, ColumnValues, MaxDeals)
    /\ df = inp
    /\ pc = "loaded"
    /\ ret = Nothing

InitWinRate ==
    /\ inp \in Tables(DealColumnSets, WinColumnValues, MaxWinDeals)
    /\ df = inp
    /\ pc = "loaded"
    /\ ret = Nothing

ApplyDealFilters ==
    /\ pc = "loaded"
    /\ df' = apply_deal_filters(df)
    /\ pc' = "filtered"
    /\ UNCHANGED <<inp, ret>>

TagTerminalStages ==
    /\ pc = "loaded"
    /\ df' = tag_terminal_stages(df, "deal_stage")
    /\ pc' = "tagged"
    /\ UNCHANGED <<inp, ret>>

WinRate ==
    /\ pc \in {"filtered", "tagged"}
    /\ ret' = win_rate(df)
    /\ pc' = "win_rate"
    /\ UNCHANGED <<inp, df>>

ClosedWonVsLostByRep ==
    /\ pc \in {"filtered", "tagged"}
    /\ ret' = closed_won_vs_lost_by_rep(df)
    /\ pc' = "closed_won_vs_lost"
    /\ UNCHANGED <<inp, df>>

ActivePipelineValue ==
    /\ pc \in {"filtered", "tagged"}
    /\ ret' = active_pipeline_value(df)
    /\ pc' = "active_pipeline_value"
    /\ UNCHANGED <<inp, df>>

Next ==
    \/ ApplyDealFilters
    \/ TagTerminalStages
    \/ WinRate
    \/ ClosedWonVsLostByRep
    \/ ActivePipelineValue

Spec == Init /\ [][Next]_vars

SpecWinRate == InitWinRate /\ [][Next]_vars

(***************************************************************************)
(* Properties of the deal run                                              *)
(***************************************************************************)
\* the stage tag_terminal_stages reads for row i: NaN without the column
StageOf(d, i) == IF "deal_stage" \in d.cols THEN d.rows[i]["deal_stage"] ELSE NaN

IsTerminalStage(stage) == ~isna(stage) /\ stage[1] \in DOMAIN TERMINAL_STAGES

\* C2: after tag_terminal_stages, for every deal, is_terminal is true exactly
\* when deal_stage is a key of TERMINAL_STAGES, terminal_status is the
\* table's value for deal_stage (NaN when it is no key), and is_terminal is
\* true if and only if terminal_status is not NaN.
C2_TerminalTagging ==
    pc # "loaded" =>
        \A i \in DOMAIN df.rows :
            LET r == df.rows[i]
                stage == StageOf(df, i)
            IN /\ r["is_terminal"] = IsTerminalStage(stage)
               /\ r["terminal_status"] =
                    IF IsTerminalStage(stage) THEN V(TERMINAL_STAGES[stage[1]]) ELSE NaN
               /\ r["is_terminal"] <=> ~isna(r["terminal_status"])

\* a tagged table with a terminal and an active deal, one of them a win stage
\* and one a terminal stage that is no win
C2_Witness ==
    /\ pc = "tagged"
    /\ \E i, j \in DOMAIN df.rows :
        /\ df.rows[i]["is_terminal"] /\ df.rows[i]["terminal_status"] = V("NCR")
        /\ ~df.rows[j]["is_terminal"] /\ isna(df.rows[j]["terminal_status"])

\* what C3 requires of every row of win_rate but the value of win_rate
WinRateRowBounds(r) ==
    /\ r["terminal_count"] > 0
    /\ 0 <= r["wins"] /\ r["wins"] <= r["terminal_count"]
    /\ 0 <= r["win_rate"] /\ r["win_rate"] <= Pow10(RoundDecimals)

\* C3 as stated: every group emitted by win_rate has terminal_count > 0,
\* 0 <= wins <= terminal_count, 0 <= win_rate <= 1 and win_rate equal to
\* wins / terminal_count (win_rate * terminal_count = wins, in units of 1e-4).
C3_WinRateExact ==
    pc = "win_rate" /\ ~raised(ret) =>
        \A r \in DOMAIN ret.rows :
            /\ WinRateRowBounds(r)
            /\ r["win_rate"] * r["terminal_count"] = r["wins"] * Pow10(RoundDecimals)

\* C3 amended: ... and win_rate is wins / terminal_count rounded to four
\* decimals: it differs from the quotient by at most half a unit of 1e-4.
C3_WinRateRounded ==
    pc = "win_rate" /\ ~raised(ret) =>
        \A r \in DOMAIN ret.rows :
            LET err == r["win_rate"] * r["terminal_count"]
                        - r["wins"] * Pow10(RoundDecimals)
            IN /\ WinRateRowBounds(r)
               /\ 2 * err <= r["terminal_count"]
               /\ -2 * err <= r["terminal_count"]

\* win_rate emitted a group of three terminal deals with two wins
C3_Witness ==
    /\ pc = "win_rate"
    /\ ~raised(ret)
    /\ \E r \in DOMAIN ret.rows : r["terminal_count"] = 3 /\ r["wins"] = 2

\* the reps that own a CLOSED_WON or CLOSED_LOST deal of the tagged table d
ClosedReps(d) ==
    IF {"hubspot_owner_name", "terminal_status"} \subseteq d.cols
    THEN {d.rows[i]["hubspot_owner_name"][1] : i \in
            {j \in DOMAIN d.rows :
                /\ ~isna(d.rows[j]["hubspot_owner_name"])
                /\ d.rows[j]["terminal_status"] \in {V("CLOSED_WON"), V("CLOSED_LOST")}}}
    ELSE {}

\* the number of deals of rep o with the terminal status status
StatusCount(d, o, status) ==
    Cardinality({i \in DOMAIN d.rows :
        /\ d.rows[i]["hubspot_owner_name"] = V(o)
        /\ d.rows[i]["terminal_status"] = V(status)})

\* C5: in the output of closed_won_vs_lost_by_rep every rep that owns a
\* CLOSED_WON or CLOSED_LOST deal has exactly one row, whose closed_won and
\* closed_lost are the rep's counts of each status (0 for none) and whose
\* net is closed_won - closed_lost.
C5_ClosedWonVsLostComplete ==
    pc = "closed_won_vs_lost" =>
        \A o \in ClosedReps(df) :
            /\ ~raised(ret)
            /\ LET mine(r) == r["hubspot_owner_name"] = V(o)
               IN /\ RowsWhere(ret.rows, mine) = 1
                  /\ \A r \in DOMAIN ret.rows :
                        mine(r) =>
                            /\ r["closed_won"] = StatusCount(df, o, "CLOSED_WON")
                            /\ r["closed_lost"] = StatusCount(df, o, "CLOSED_LOST")
                            /\ r["net"] = r["closed_won"] - r["closed_lost"]

\* one rep with a win and no loss, another with a loss and no win
C5_Witness ==
    /\ pc = "closed_won_vs_lost"
    /\ ~raised(ret)
    /\ \E r, q \in DOMAIN ret.rows :
        /\ r["closed_won"] = 1 /\ r["closed_lost"] = 0 /\ r["net"] = 1
        /\ q["closed_won"] = 0 /\ q["closed_lost"] = 1 /\ q["net"] = -1

\* the deal table is the filtered deal set of its input, and has deals
FilteredDeals == pc # "loaded" /\ df = apply_deal_filters(inp) /\ ~empty(df)

\* how many times the row r occurs in the table d
Occurrences(d, r) == Cardinality({i \in DOMAIN d.rows : d.rows[i] = r})

\* the deals of the group of deal i over the columns group whose stage is in stages
StageCount(d, group, i, stages) ==
    Cardinality({j \in DOMAIN d.rows :
        /\ KeyOf(d, group, j) = KeyOf(d, group, i)
        /\ isin(safe_column(d, "deal_stage"), stages)[j]})

\* every deal is in exactly one of get_active_deals and get_terminal_deals
ActiveTerminalPartition ==
    LET active == get_active_deals(df)
        terminal == get_terminal_deals(df)
    IN /\ ~raised(active) /\ ~raised(terminal)
       /\ \A i \in DOMAIN df.rows :
            LET r == df.rows[i]
            IN /\ Occurrences(active, r) + Occurrences(terminal, r) = Occurrences(df, r)
               /\ Occurrences(active, r) = 0 \/ Occurrences(terminal, r) = 0
               /\ Occurrences(terminal, r) > 0 <=> IsTerminalStage(StageOf(df, i))

\* C13: in the filtered deal set every deal is either active or terminal and
\* never both; a "Closed Won" deal is in no deal_count of
\* active_pipeline_value (each counts the deals of the pipeline that have no
\* terminal stage), adds one to closed_won of its rep's only row of
\* closed_won_vs_lost_by_rep, and adds one to both wins and terminal_count of
\* the only row of win_rate for its (pipeline, rep).
C13_LifecyclePartition ==
    FilteredDeals =>
        /\ ActiveTerminalPartition
        /\ pc = "active_pipeline_value" /\ ~raised(ret) =>
            /\ \A r \in DOMAIN ret.rows :
                r["deal_count"] = Cardinality({i \in DOMAIN df.rows :
                    /\ df.rows[i]["pipeline"] = r["pipeline"]
                    /\ ~IsTerminalStage(StageOf(df, i))})
            /\ Sum([r \in DOMAIN ret.rows |-> r["deal_count"] * ret.rows[r]])
                 = Cardinality({i \in DOMAIN df.rows : ~IsTerminalStage(StageOf(df, i))})
        /\ pc = "closed_won_vs_lost" =>
            \A i \in DOMAIN df.rows :
                StageOf(df, i) = V("Closed Won") =>
                    /\ ~raised(ret)
                    /\ LET mine(r) == r["hubspot_owner_name"] = df.rows[i]["hubspot_owner_name"]
                       IN /\ RowsWhere(ret.rows, mine) = 1
                          /\ \A r \in DOMAIN ret.rows :
                                mine(r) => r["closed_won"] =
                                    StageCount(df, {"hubspot_owner_name"}, i, {"Closed Won"})
        /\ pc = "win_rate" =>
            \A i \in DOMAIN df.rows :
                StageOf(df, i) = V("Closed Won") =>
                    /\ ~raised(ret)
                    /\ LET group == {"pipeline", "hubspot_owner_name"} \cap df.cols
                           mine(r) == \A c \in group : r[c] = df.rows[i][c]
                       IN /\ RowsWhere(ret.rows, mine) = 1
                          /\ \A r \in DOMAIN ret.rows :
                                mine(r) =>
                                    /\ r["wins"] = StageCount(df, group, i, WIN_STAGES)
                                    /\ r["terminal_count"] =
                                        StageCount(df, group, i, DOMAIN TERMINAL_STAGES)

\* a filtered deal set with a "Closed Won" deal and an active deal of the same
\* pipeline, after active_pipeline_value counted one deal for the pipeline
C13_Witness ==
    /\ FilteredDeals
    /\ pc = "active_pipeline_value"
    /\ ~raised(ret)
    /\ \E i, j \in DOMAIN df.rows :
        /\ StageOf(df, i) = V("Closed Won")
        /\ StageOf(df, j) = V("Negotiation")
        /\ df.rows[i]["pipeline"] = df.rows[j]["pipeline"]
        /\ \E r \in DOMAIN ret.rows :
            r["pipeline"] = df.rows[i]["pipeline"] /\ r["deal_count"] = 1

(***************************************************************************)
(* The activity run of main.py load_all: a table of calls, meetings,       *)
(* tasks, emails or notes goes through apply_activity_filters.             *)
(***************************************************************************)
MaxActivities == 3

ActivityColumnValues ==
    [hubspot_owner_name |-> {V("Brad Sherman"), V("Pat Outsider"), V(""), NaN},
     full_name |-> {V("Jake Lynch"), V("Pat Outsider")},
     task_title |-> {V("Send quote"), V("Follow up")}]

ActivityColumnSets ==
    {{"hubspot_owner_name", "task_title"},
     {"full_name", "task_title"},
     {"hubspot_owner_name", "full_name", "task_title"},
     {"task_title"}}

InitFilter ==
    /\ inp \in Tables(ActivityColumnSets, ActivityColumnValues, MaxActivities)
    /\ df = inp
    /\ pc = "loaded"
    /\ ret = Nothing

ApplyActivityFilters ==
    /\ pc = "loaded"
    /\ df' = apply_activity_filters(df)
    /\ pc' = "filter_by_rep"
    /\ UNCHANGED <<inp, ret>>

NextFilter == ApplyActivityFilters

SpecFilter == InitFilter /\ [][NextFilter]_vars

(***************************************************************************)
(* Properties of the rep filter                                            *)
(***************************************************************************)
HasOwnerColumn(d) ==
    \E k \in DOMAIN OWNER_CANDIDATES : OWNER_CANDIDATES[k] \in d.cols

\* the owner name of row i: hubspot_owner_name, else the first owner
\* candidate the table has
OwnerNameOf(d, i) ==
    IF "hubspot_owner_name" \in d.cols THEN d.rows[i]["hubspot_owner_name"]
    ELSE IF "activity_assigned_to" \in d.cols THEN d.rows[i]["activity_assigned_to"]
    ELSE IF "full_name" \in d.cols THEN d.rows[i]["full_name"]
    ELSE IF "opp_owner" \in d.cols THEN d.rows[i]["opp_owner"]
    ELSE IF "deal_owner" \in d.cols THEN d.rows[i]["deal_owner"]
    ELSE d.rows[i]["activity_created_by"]

InScopeRows(d) ==
    {i \in DOMAIN d.rows :
        ~isna(OwnerNameOf(d, i)) /\ OwnerNameOf(d, i)[1] \in REPS_IN_SCOPE}

\* C8: filter_by_rep on a table with an owner-name column returns exactly
\* the input rows whose owner name is in REPS_IN_SCOPE, in input order, and
\* keeps no row with an empty or null owner name.
C8_RepFilterExact ==
    pc = "filter_by_rep" /\ HasOwnerColumn(inp) =>
        /\ Len(df.rows) = Cardinality(InScopeRows(inp))
        /\ \E f \in [DOMAIN df.rows -> DOMAIN inp.rows] :
            /\ \A a, b \in DOMAIN f : a < b => f[a] < f[b]
            /\ {f[a] : a \in DOMAIN f} = InScopeRows(inp)
            /\ \A a \in DOMAIN f : \A c \in inp.cols :
                    df.rows[a][c] = inp.rows[f[a]][c]
        /\ \A a \in DOMAIN df.rows :
            df.rows[a]["hubspot_owner_name"] \notin {NaN, V("")}

\* two of three rows were kept, in their order, and the dropped one had an
\* empty owner name
C8_Witness ==
    /\ pc = "filter_by_rep"
    /\ HasOwnerColumn(inp)
    /\ Len(inp.rows) = 3
    /\ Len(df.rows) = 2
    /\ df.rows[1] # df.rows[2]
    /\ \E i \in DOMAIN inp.rows : OwnerNameOf(inp, i) = V("")

\* C9: filter_by_rep on a non-empty table without any owner column returns
\* the table unchanged, every row kept.
C9_NoOwnerColumnUnchanged ==
    pc = "filter_by_rep" /\ ~empty(inp) /\ ~HasOwnerColumn(inp) => df = inp

(***************************************************************************)
(* The scoring step of main.py load_all: the weekly count table goes to    *)
(* compute_activity_score and then to compute_activity_score_by_period.    *)
(***************************************************************************)
MaxCountRows == 3

\* the counts of one row of the enumerated count tables
CountVectors ==
    {[meetings |-> 1, calls |-> 0, emails |-> 0, completed_tasks |-> 0, overdue_tasks |-> 0],
     [meetings |-> 0, calls |-> 2, emails |-> 1, completed_tasks |-> 0, overdue_tasks |-> 0],
     [meetings |-> 0, calls |-> 0, emails |-> 0, completed_tasks |-> 1, overdue_tasks |-> 3]}

CountOwners == {V("Brad Sherman"), V("Jake Lynch")}
CountPeriods == {V("2024-01-01"), NaN}

\* the metric columns of the enumerated count tables: all five, the table
\* of a run without emails column, and a table with meetings only
CountColumnSets ==
    {DOMAIN WEIGHTS, DOMAIN WEIGHTS \ {"emails"}, {"meetings"}}

CountRows(metrics) ==
    {[c \in {"hubspot_owner_name", "period_week"} \cup metrics |->
        IF c = "hubspot_owner_name" THEN o
        ELSE IF c = "period_week" THEN p ELSE v[c]] :
     o \in CountOwners, p \in CountPeriods, v \in CountVectors}

InitScoring ==
    /\ \E metrics \in CountColumnSets :
        \E rows \in SeqUpTo(CountRows(metrics), MaxCountRows) :
            inp = Frame({"hubspot_owner_name", "period_week"} \cup metrics, rows)
    /\ df = inp
    /\ pc = "weekly"
    /\ ret = Nothing

ComputeActivityScore ==
    /\ pc = "weekly"
    /\ ret' = [rep_activity_score |->
                    compute_activity_score(df, "hubspot_owner_name")]
    /\ pc' = "rep_score"
    /\ UNCHANGED <<inp, df>>

ComputeActivityScoreByPeriod ==
    /\ pc = "rep_score"
    /\ ret' = [rep_activity_score |-> ret.rep_activity_score,
               rep_activity_score_trend |->
                    compute_activity_score_by_period(df, "period_week",
                                                     "hubspot_owner_name")]
    /\ pc' = "rep_score_trend"
    /\ UNCHANGED <<inp, df>>

NextScoring ==
    \/ ComputeActivityScore
    \/ ComputeActivityScoreByPeriod

SpecScoring == InitScoring /\ [][NextScoring]_vars

(***************************************************************************)
(* Properties of the scoring                                               *)
(***************************************************************************)
\* the count of row i in the metric column c: 0 for a missing column
CountOf(d, i, c) == IF c \in d.cols THEN d.rows[i][c] ELSE 0

\* meetings*5 + calls*3 + emails*1 + completed_tasks*2 - overdue_tasks*2
ScoreOf(d, i) ==
    CountOf(d, i, "meetings") * 5 + CountOf(d, i, "calls") * 3
    + CountOf(d, i, "emails") * 1 + CountOf(d, i, "completed_tasks") * 2
    - CountOf(d, i, "overdue_tasks") * 2

\* the sum of activity_score over the rows of a score table that satisfy P
ScoreWhere(bag, P(_)) ==
    Sum([r \in DOMAIN bag |-> IF P(r) THEN bag[r] * r["activity_score"] ELSE 0])

\* C4: for every rep of a weekly count table, the total score of
\* compute_activity_score equals the sum over the periods of the scores of
\* compute_activity_score_by_period, each score being meetings*5 + calls*3
\* + emails*1 + completed_tasks*2 - overdue_tasks*2 with a missing count
\* column counted as zero.
C4_ScoreAdditive ==
    pc = "rep_score_trend" =>
        \A o \in {df.rows[i]["hubspot_owner_name"] : i \in DOMAIN df.rows} :
            LET mine(r) == r["hubspot_owner_name"] = o
                total == ret.rep_activity_score.rows
                trend == ret.rep_activity_score_trend.rows
            IN /\ RowsWhere(total, mine) = 1
               /\ ScoreWhere(total, mine) = ScoreWhere(trend, mine)
               /\ \A r \in DOMAIN trend :
                    mine(r) =>
                        r["activity_score"] =
                            Sum([i \in {j \in DOMAIN df.rows :
                                    /\ df.rows[j]["hubspot_owner_name"] = o
                                    /\ df.rows[j]["period_week"] = r["period_week"]}
                                 |-> ScoreOf(df, i)])

\* a rep with two periods, one of them with a negative score, in a table
\* without emails column
C4_Witness ==
    /\ pc = "rep_score_trend"
    /\ "emails" \notin df.cols
    /\ \E r, q \in DOMAIN ret.rep_activity_score_trend.rows :
        /\ r["hubspot_owner_name"] = q["hubspot_owner_name"]
        /\ r["period_week"] # q["period_week"]
        /\ r["activity_score"] < 0
        /\ q["activity_score"] > 0

\* the rows that deduplicate_emails has after phase 1 (the table whose
\* length it logs as after_gong), as positions of d.rows; Nothing when the
\* function returns before phase 1
after_gong(d) ==
    IF empty(d) THEN Nothing
    ELSE LET date_col == IF "activity_date" \in d.cols
                         THEN "activity_date" ELSE "create_date"
         IN IF "email_subject" \notin d.cols \/ date_col \notin d.cols THEN Nothing
            ELSE [after_gong |-> email_phase1(d, date_col)]

(***************************************************************************)
(* The meeting and email runs of main.py load_all: a normalized,           *)
(* owner-mapped meetings table goes through deduplicate_meetings, an       *)
(* emails table through deduplicate_emails.                                *)
(***************************************************************************)
MaxMeetings == 2
MaxEmails == 2

MeetingNames ==
    {NaN, V(<<"Intro Call">>), V(<<"[Gong]", " ", "Intro Call">>),
     V(<<"Google Meet:", " ", "Intro Call">>), V(<<"[Gong]">>), V(<<"_blank">>)}

MeetingColumnValues ==
    [meeting_name |-> MeetingNames,
     meeting_start_time |-> {V(<<1, 600>>), V(<<2, 600>>)},
     hubspot_owner_name |-> {V(<<"Brad Sherman">>), V(<<"Jake Lynch">>)},
     company_name |-> {V(<<"Acme">>), NaN}]

\* meetings dated by activity_date, with an outcome
OutcomeColumnValues ==
    [meeting_name |-> {NaN, V(<<"Intro Call">>), V(<<"[Gong]", " ", "Intro Call">>)},
     activity_date |-> {V(<<1, 600>>), V(<<1, 900>>), NaN},
     meeting_outcome |-> {V(<<"Completed">>), V(<<"Rescheduled">>), NaN}]

MeetingColumnSets ==
    {{"meeting_name", "meeting_start_time", "hubspot_owner_name", "company_name"},
     {"meeting_start_time", "hubspot_owner_name"},
     {"meeting_name", "company_name"}}

OutcomeColumnSets == {{"meeting_name", "activity_date", "meeting_outcome"}}

EmailSubjects ==
    {NaN, V(<<"Pricing question">>), V(<<"Re:", " ", "Pricing question">>),
     V(<<"RE:", " ", "Pricing question">>),
     V(<<"[Gong Out]", " ", "Re:", " ", "Pricing question">>)}

EmailColumnValues ==
    [email_subject |-> EmailSubjects,
     activity_date |-> {V(<<1, 600>>), V(<<2, 600>>)},
     company_name |-> {V(<<"Acme">>), V(<<"ACME">>)}]

EmailColumnSets ==
    {{"email_subject", "activity_date", "company_name"},
     {"email_subject", "company_name"},
     {"activity_date", "company_name"}}

\* emails dated by create_date, with a direction
DirectionColumnValues ==
    [email_subject |-> EmailSubjects \ {V(<<"RE:", " ", "Pricing question">>)},
     create_date |-> {V(<<1, 600>>), V(<<1, 900>>), NaN},
     email_direction |-> {V(<<"EMAIL">>), V(<<"INCOMING_EMAIL">>)}]

DirectionColumnSets == {{"email_subject", "create_date", "email_direction"}}

\* a logged email and its Gong copy, with a sender
SenderColumnValues ==
    [email_subject |-> {V(<<"Re:", " ", "Pricing question">>),
                        V(<<"[Gong Out]", " ", "Re:", " ", "Pricing question">>),
                        V(<<"[Gong Out]", " ", "Re:", " ", "Re:", " ", "Pricing question">>)},
     company_name |-> {V(<<"Acme">>)},
     activity_date |-> {V(<<1, 600>>), V(<<1, 900>>)},
     email_from_address |-> {V(<<"jo@x.com">>), V(<<" ", "Jo@X.com">>), V(<<"al@x.com">>)}]

SenderColumnSets ==
    {{"email_subject", "activity_date", "company_name", "email_from_address"}}

InitMeetings ==
    /\ \/ inp \in Tables(MeetingColumnSets, MeetingColumnValues, MaxMeetings)
       \/ inp \in Tables(OutcomeColumnSets, OutcomeColumnValues, MaxMeetings)
    /\ df = inp
    /\ pc = "meetings"
    /\ ret = Nothing

InitEmails ==
    /\ \/ inp \in Tables(EmailColumnSets, EmailColumnValues, MaxEmails)
       \/ inp \in Tables(DirectionColumnSets, DirectionColumnValues, MaxEmails)
       \/ inp \in Tables(SenderColumnSets, SenderColumnValues, MaxEmails)
    /\ df = inp
    /\ pc = "emails"
    /\ ret = Nothing

DeduplicateMeetings ==
    /\ pc = "meetings"
    /\ df' = deduplicate_meetings(df)
    /\ pc' = "meetings_deduplicated"
    /\ UNCHANGED <<inp, ret>>

DeduplicateEmails ==
    /\ pc = "emails"
    /\ df' = deduplicate_emails(df)
    /\ ret' = after_gong(df)
    /\ pc' = "emails_deduplicated"
    /\ UNCHANGED inp

NextDedup ==
    \/ DeduplicateMeetings
    \/ DeduplicateEmails

SpecDedup == (InitMeetings \/ InitEmails) /\ [][NextDedup]_vars

SpecMeetings == InitMeetings /\ [][DeduplicateMeetings]_vars

SpecEmails == InitEmails /\ [][DeduplicateEmails]_vars

(***************************************************************************)
(* Properties of the deduplications                                        *)
(***************************************************************************)
\* C1: deduplicate_meetings and deduplicate_emails each return a table
\* with no more rows than the table they were given.
C1_DedupNeverAddsRows ==
    pc \in {"meetings_deduplicated", "emails_deduplicated"}
        => Len(df.rows) <= Len(inp.rows)

\* two emails of one thread were collapsed into one record of depth 2
C1_Witness ==
    /\ pc = "emails_deduplicated"
    /\ Len(inp.rows) = 2
    /\ Len(df.rows) = 1
    /\ df.rows[1]["thread_depth"] = 2

\* two meetings were merged into one record
C1_WitnessMeetings ==
    /\ pc = "meetings_deduplicated"
    /\ Len(inp.rows) = 2
    /\ Len(df.rows) = 1

\* deduplicate_meetings got past its early returns
MeetingsGrouped ==
    /\ pc = "meetings_deduplicated"
    /\ ~empty(inp)
    /\ "meeting_name" \in inp.cols
    /\ {"meeting_start_time", "activity_date"} \cap inp.cols # {}

MeetingDateCol ==
    IF "meeting_start_time" \in inp.cols THEN "meeting_start_time" ELSE "activity_date"

\* the name shared by the named rows of a group, prefixes stripped; empty
\* for a group of blank rows
GroupName(group) ==
    LET idx == group.indices
        norm(k) == _norm_meeting_name(inp.rows[idx[k]]["meeting_name"])
        named == {k \in DOMAIN idx : norm(k) # <<>>}
    IN IF named = {} THEN <<>>
       ELSE norm(CHOOSE k \in named : \A j \in named : k <= j)

\* some row of the group has a name that starts with [Gong]
GroupHasGong(group) ==
    \E k \in DOMAIN group.indices :
        startswith(fillna_str(inp.rows[group.indices[k]]["meeting_name"]), <<"[Gong]">>)

\* C10: the record merged from a group of more than one meeting has the
\* OR of the group's has_gong flags and the group's normalized name as
\* its meeting_name.
C10_MergedNameAndFlag ==
    MeetingsGrouped =>
        LET groups == meeting_groups(inp, MeetingDateCol)
        IN \A g \in DOMAIN groups :
              Len(groups[g].indices) > 1 =>
                  /\ df.rows[g]["has_gong"] = GroupHasGong(groups[g])
                  /\ df.rows[g]["meeting_name"] = V(GroupName(groups[g]))

\* C10 for the groups whose name is not the text "_blank"
MergedNameAndFlagExceptBlankText ==
    MeetingsGrouped =>
        LET groups == meeting_groups(inp, MeetingDateCol)
        IN \A g \in DOMAIN groups :
              Len(groups[g].indices) > 1 /\ GroupName(groups[g]) # BlankName =>
                  /\ df.rows[g]["has_gong"] = GroupHasGong(groups[g])
                  /\ df.rows[g]["meeting_name"] = V(GroupName(groups[g]))

\* "[Gong] Intro Call" and "Intro Call" with one date, owner and company
\* give one row with has_gong and the name "Intro Call"
GongIntroCallExample ==
    /\ pc = "meetings_deduplicated"
    /\ inp.cols = {"meeting_name", "meeting_start_time", "hubspot_owner_name",
                   "company_name"}
    /\ Len(inp.rows) = 2
    /\ {inp.rows[1]["meeting_name"], inp.rows[2]["meeting_name"]}
          = {V(<<"[Gong]", " ", "Intro Call">>), V(<<"Intro Call">>)}
    /\ \A c \in inp.cols \ {"meeting_name"} :
          inp.rows[1][c] = inp.rows[2][c] /\ ~isna(inp.rows[1][c])
    => /\ Len(df.rows) = 1
       /\ df.rows[1]["has_gong"]
       /\ df.rows[1]["meeting_name"] = V(<<"Intro Call">>)

(***************************************************************************)
(* Properties of the email deduplication                                   *)
(***************************************************************************)
\* deduplicate_emails got past its early returns
EmailsGrouped == pc = "emails_deduplicated" /\ ret # Nothing

EmailDateCol == IF "activity_date" \in inp.cols THEN "activity_date" ELSE "create_date"

EmailKey(i) == email_keys(inp, EmailDateCol, inp.rows[i])

\* the rows of the input table that share the phase 1 key of row i
SameEmail(i) ==
    {j \in DOMAIN inp.rows :
        /\ EmailKey(j).clean_subject = EmailKey(i).clean_subject
        /\ EmailKey(j).email_date = EmailKey(i).email_date
        /\ EmailKey(j).co = EmailKey(i).co
        /\ EmailKey(j).from = EmailKey(i).from}

\* the rows of the input table that phase 1 has kept
KeptByPhase1 == {ret.after_gong[k] : k \in DOMAIN ret.after_gong}

\* C11: after phase 1, of the records with a subject that share (clean
\* subject, calendar date, lowercased company, lowercased sender) exactly
\* one is left, and it is not a Gong copy when the records have one that
\* is not.
C11_OnePerKeyPlainPreferred ==
    EmailsGrouped =>
        /\ Len(ret.after_gong) = Cardinality(KeptByPhase1)
        /\ \A i \in DOMAIN inp.rows :
              EmailKey(i).clean_subject # <<>> =>
                  /\ Cardinality(SameEmail(i) \cap KeptByPhase1) = 1
                  /\ (\E j \in SameEmail(i) : ~EmailKey(j).is_gong)
                        => \A j \in SameEmail(i) \cap KeptByPhase1 : ~EmailKey(j).is_gong

\* a Gong copy comes before the email it copies, and phase 1 keeps the
\* email
C11_Witness ==
    /\ EmailsGrouped
    /\ Len(inp.rows) = 2
    /\ EmailKey(1).is_gong
    /\ ~EmailKey(2).is_gong
    /\ 2 \in SameEmail(1)
    /\ ret.after_gong = <<2>>

\* the table is a Gong copy of a second reply and the first reply, with
\* one calendar date, company and sender
GongReplyPair ==
    /\ EmailsGrouped
    /\ Len(inp.rows) = 2
    /\ {"company_name", "email_from_address"} \subseteq inp.cols
    /\ {inp.rows[1]["email_subject"], inp.rows[2]["email_subject"]}
          = {V(<<"[Gong Out]", " ", "Re:", " ", "Re:", " ", "Pricing question">>),
             V(<<"Re:", " ", "Pricing question">>)}
    /\ EmailKey(1).email_date = EmailKey(2).email_date
    /\ EmailKey(1).co = EmailKey(2).co
    /\ EmailKey(1).from = EmailKey(2).from

\* the Gong copy of the pair
TaggedOfPair == CHOOSE i \in DOMAIN inp.rows : EmailKey(i).is_gong

\* the first reply of the pair
PlainOfPair == CHOOSE i \in DOMAIN inp.rows : ~EmailKey(i).is_gong

\* C12 as stated: phase 1 keeps only the email that is not the Gong copy,
\* and the Gong copy is not the record of the final table.
C12_Phase1KeepsPlainOnly ==
    GongReplyPair =>
        /\ KeptByPhase1 = {PlainOfPair}
        /\ \A k \in DOMAIN df.rows :
              df.rows[k]["email_subject"] # inp.rows[TaggedOfPair]["email_subject"]

\* C12, amended: phase 1 keeps both records, since their clean subjects
\* differ; phase 2 collapses them into one record of depth 2, which is the
\* record with the later timestamp, and the email that is not the Gong
\* copy when the timestamps are equal.
C12_PairCollapsedByPhase2 ==
    GongReplyPair =>
        /\ KeptByPhase1 = {1, 2}
        /\ Len(df.rows) = 1
        /\ df.rows[1]["thread_depth"] = 2
        /\ df.rows[1]["email_subject"] =
              inp.rows[IF later(EmailKey(TaggedOfPair).dt, EmailKey(PlainOfPair).dt)
                       THEN TaggedOfPair ELSE PlainOfPair]["email_subject"]

\* the Gong copy of the pair is the later record and is the one left
C12_Witness ==
    /\ GongReplyPair
    /\ later(EmailKey(TaggedOfPair).dt, EmailKey(PlainOfPair).dt)
    /\ Len(df.rows) = 1
    /\ df.rows[1]["email_subject"] = inp.rows[TaggedOfPair]["email_subject"]

(***************************************************************************)
(* The normalization of a sheet as it was read: main.py load_all calls     *)
(* normalize_dataframe on every table; normalize_columns is its first      *)
(* step.  The cells of a sheet are strings.                                *)
(***************************************************************************)
MaxColumns == 3
MaxRawRows == 1

RawHeaders == {"Create Date", "Created At", "a", "a_2", "Unnamed: 0", "dealAmount"}

RawCells == {V(<<" ", "12", " ">>), V(<<"2024-01-05">>)}

\* the sequences of exactly n elements of S
SeqOf(S, n) == [1..n -> S]

\* the sheets of n columns and at most MaxRawRows rows
RawTables(n) ==
    {RawFrame(t[1], [i \in DOMAIN t[1] |-> "object"], t[2]) :
        t \in SeqOf(RawHeaders, n) \X SeqUpTo(SeqOf(RawCells, n), MaxRawRows)}

InitNormalize ==
    /\ \E n \in 1..MaxColumns : inp \in RawTables(n)
    /\ df = inp
    /\ pc = "read"
    /\ ret = Nothing

NormalizeColumns ==
    /\ pc = "read"
    /\ df' = normalize_columns(df)
    /\ pc' = "columns_normalized"
    /\ UNCHANGED <<inp, ret>>

NormalizeDataframe ==
    /\ pc = "read"
    /\ df' = normalize_dataframe(df)
    /\ pc' = "normalized"
    /\ UNCHANGED <<inp, ret>>

\* a table that was normalized is normalized once more; ret keeps the
\* first result
NormalizeDataframeAgain ==
    /\ pc = "normalized"
    /\ ~raised(df)
    /\ ret' = df
    /\ df' = normalize_dataframe(df)
    /\ pc' = "normalized_again"
    /\ UNCHANGED inp

NextNormalize ==
    \/ NormalizeColumns
    \/ NormalizeDataframe
    \/ NormalizeDataframeAgain

SpecNormalize == InitNormalize /\ [][NextNormalize]_vars

(***************************************************************************)
(* Properties of the normalization                                         *)
(***************************************************************************)
\* C6: normalization is idempotent: normalize_dataframe returns a table
\* for every raw table, and normalizing that table once more gives the
\* same column names and the same cells.
C6_NormalizeIdempotent ==
    /\ pc = "normalized" => ~raised(df)
    /\ pc = "normalized_again" =>
          /\ ~raised(df)
          /\ df.columns = ret.columns
          /\ df.dtypes = ret.dtypes
          /\ df.rows = ret.rows

\* C6 for the tables whose normalized column names are pairwise distinct
NormalizeIdempotentWhenDistinct ==
    ~has_duplicates(normalize_columns(inp).columns) => C6_NormalizeIdempotent

\* normalize_columns applied twice gives the names of normalize_columns
\* applied once
NormalizeColumnsIdempotent ==
    pc = "columns_normalized" => normalize_columns(df).columns = df.columns

\* C7: after normalize_columns the column names of a table that has rows
\* are pairwise distinct.
C7_ColumnNamesDistinct ==
    pc = "columns_normalized" /\ ~raw_empty(inp) => ~has_duplicates(df.columns)

\* C7 for the headers that no alias renames and that carry no suffix
ColumnNamesDistinctWithoutAliases ==
    /\ pc = "columns_normalized"
    /\ ~raw_empty(inp)
    /\ \A i \in DOMAIN inp.columns : inp.columns[i] \in {"a", "Unnamed: 0", "dealAmount"}
    => ~has_duplicates(df.columns)

(***************************************************************************)
(* The activity metrics of main.py load_all: count_activities on the       *)
(* filtered calls, meetings, tasks and emails, then compute_activity_score *)
(* on the weekly table.  _split_tasks is also run on its own.              *)
(***************************************************************************)
MaxTasks == 2

TaskColumnValues ==
    [hubspot_owner_name |-> {V("Brad Sherman"), V("Lance Mitton")},
     activity_date |-> {V(<<2, 600>>)},
     task_status |-> {V(<<" ", "done">>), V(<<"Overdue">>), V(<<"Open">>), NaN},
     due_date |-> {V(<<9, 0>>), V(<<11, 0>>), NaN}]

TaskColumnSets ==
    {{"hubspot_owner_name", "activity_date", "task_status", "due_date"},
     {"hubspot_owner_name", "task_status", "due_date"},
     {"hubspot_owner_name", "task_status"},
     {"hubspot_owner_name", "activity_date", "due_date"}}

InitTasks ==
    /\ \E tasks \in Tables(TaskColumnSets, TaskColumnValues, MaxTasks) :
        inp = [calls |-> NoFrame, meetings |-> NoFrame, tasks |-> tasks,
               emails |-> NoTable]
    /\ df = Nothing
    /\ pc = "filtered"
    /\ ret = Nothing

SplitTasks ==
    /\ pc = "filtered"
    /\ LET split == _split_tasks(inp.tasks)
       IN ret' = [completed |-> split[1], overdue |-> split[2]]
    /\ pc' = "split"
    /\ UNCHANGED <<inp, df>>

CountActivities ==
    /\ pc = "filtered"
    /\ df' = count_activities(inp.calls, inp.meetings, inp.tasks, inp.emails)
    /\ pc' = "counted"
    /\ UNCHANGED <<inp, ret>>

\* the rows of a bag in some order
RECURSIVE BagRows(_)
BagRows(bag) ==
    IF DOMAIN bag = {} THEN <<>>
    ELSE LET r == CHOOSE x \in DOMAIN bag : TRUE
         IN <<r>> \o BagRows([x \in DOMAIN bag \ {r} |-> bag[x]])

\* weekly.copy()
as_frame(t) == Frame(t.cols, BagRows(t.rows))

ScoreWeekly ==
    /\ pc = "counted"
    /\ ~raised(df)
    /\ ret' = compute_activity_score(as_frame(df.weekly), "hubspot_owner_name")
    /\ pc' = "scored"
    /\ UNCHANGED <<inp, df>>

NextActivity ==
    \/ SplitTasks
    \/ CountActivities
    \/ ScoreWeekly

SpecTasks == InitTasks /\ [][NextActivity]_vars

(***************************************************************************)
(* Properties of the task split                                            *)
(***************************************************************************)
\* the status of a task, trimmed and in lower case; a task without status
\* column has none
StatusIn(r, names) ==
    /\ "task_status" \in DOMAIN r
    /\ ~isna(r["task_status"])
    /\ strip(lower(r["task_status"][1])) \in names

IsCompleted(r) == StatusIn(r, {<<"completed">>, <<"complete">>, <<"done">>})
IsOverdueStatus(r) == StatusIn(r, {<<"overdue">>, <<"past_due">>, <<"deferred">>})
PastDue(r) == "due_date" \in DOMAIN r /\ before(r["due_date"], Now)

\* the task r is a row of the bucket
InBucket(bucket, r) ==
    \E k \in DOMAIN bucket.rows : \A c \in DOMAIN r : bucket.rows[k][c] = r[c]

\* the tasks of the owner of r that satisfy P
TasksOfOwner(r, P(_)) ==
    Cardinality({j \in DOMAIN inp.tasks.rows :
        /\ inp.tasks.rows[j]["hubspot_owner_name"] = r["hubspot_owner_name"]
        /\ P(inp.tasks.rows[j])})

\* the score of the rep of r counts the rep's overdue tasks at -2 each
ScoredOverdue(r) ==
    LET mine(s) == s["hubspot_owner_name"] = r["hubspot_owner_name"]
        overdue(t) == IsOverdueStatus(t) \/ (PastDue(t) /\ ~IsCompleted(t))
    IN /\ ~raised(ret)
       /\ RowsWhere(ret.rows, mine) = 1
       /\ \A s \in DOMAIN ret.rows :
            mine(s) =>
                /\ s["overdue_tasks"] = TasksOfOwner(r, overdue)
                /\ s["completed_tasks"] = TasksOfOwner(r, IsCompleted)
                /\ s["activity_score"] =
                        5 * s["meetings"] + 3 * s["calls"] + s["emails"]
                        + 2 * s["completed_tasks"] - 2 * s["overdue_tasks"]

\* C14 as stated: no task is in both buckets; a task with a completed
\* synonym for status is completed only, one with an overdue synonym is
\* overdue, and every task that has no completed status and is due before
\* the evaluation time is overdue, not completed, and counts -2 in the
\* score of its rep.
C14_SplitTasks ==
    /\ pc = "split" =>
        \A i \in DOMAIN inp.tasks.rows :
            LET r == inp.tasks.rows[i]
            IN /\ ~(InBucket(ret.completed, r) /\ InBucket(ret.overdue, r))
               /\ IsCompleted(r) => InBucket(ret.completed, r)
               /\ IsOverdueStatus(r) => InBucket(ret.overdue, r)
               /\ PastDue(r) /\ ~IsCompleted(r) => InBucket(ret.overdue, r)
    /\ pc = "scored" =>
        \A i \in DOMAIN inp.tasks.rows :
            LET r == inp.tasks.rows[i]
            IN PastDue(r) /\ ~IsCompleted(r) => ScoredOverdue(r)

\* C14 amended: the above for a task table that has a status column; in a
\* table without status column every task is completed and none overdue,
\* whatever its due date.
C14_SplitTasksByStatusColumn ==
    /\ pc = "split" =>
        \A i \in DOMAIN inp.tasks.rows :
            LET r == inp.tasks.rows[i]
            IN /\ ~(InBucket(ret.completed, r) /\ InBucket(ret.overdue, r))
               /\ IsCompleted(r) => InBucket(ret.completed, r)
               /\ IsOverdueStatus(r) => InBucket(ret.overdue, r)
               /\ "task_status" \in DOMAIN r /\ PastDue(r) /\ ~IsCompleted(r) =>
                    InBucket(ret.overdue, r)
               /\ "task_status" \notin DOMAIN r => InBucket(ret.completed, r)
    /\ pc = "scored" =>
        \A i \in DOMAIN inp.tasks.rows :
            LET r == inp.tasks.rows[i]
            IN "task_status" \in DOMAIN r /\ PastDue(r) /\ ~IsCompleted(r) =>
                    ScoredOverdue(r)

\* an "Open" task due the day before the evaluation and a done task of the
\* same rep, scored 2 - 2
C14_Witness ==
    /\ pc = "scored"
    /\ ~raised(ret)
    /\ {"task_status", "due_date"} \subseteq inp.tasks.cols
    /\ \E i, j \in DOMAIN inp.tasks.rows :
        /\ inp.tasks.rows[i]["task_status"] = V(<<"Open">>)
        /\ inp.tasks.rows[i]["due_date"] = V(<<9, 0>>)
        /\ IsCompleted(inp.tasks.rows[j])
        /\ \E s \in DOMAIN ret.rows :
            /\ s["hubspot_owner_name"] = inp.tasks.rows[i]["hubspot_owner_name"]
            /\ s["overdue_tasks"] = 1 /\ s["completed_tasks"] = 1
            /\ s["activity_score"] = 0

(***************************************************************************)
(* The owner mapping of main.py load_all: the user id map is built from    *)
(* the meetings, then apply_owner_mapping is called for a table and its    *)
(* tab type.                                                               *)
(***************************************************************************)
MaxOwnerRows == 2

TAB_TYPES == {"deals", "meetings", "calls", "tasks", "tickets", "emails", "notes"}

\* tables with a user id, with the names of the assigned rep and a user id,
\* with a full name, with an owner only, and with none of these
OwnerColumnSets ==
    {{"activity_assigned_to", "activity_date"},
     {"first_name", "last_name", "activity_assigned_to"},
     {"full_name"},
     {"hubspot_owner_name"},
     {"activity_date"}}

OwnerColumnValues(cols) ==
    [activity_assigned_to |->
        IF "first_name" \in cols THEN {V(<<"56562506">>), V(<<"777">>)}
        ELSE {V(<<"56562506">>), V(<<"56562506.0">>), V(<<" ", "900">>), V(<<"777">>), NaN},
     first_name |-> {V(<<"Brad">>), NaN},
     last_name |-> {V(<<"Sherman">>), V(<<"Outsider">>)},
     full_name |-> {V(<<"Brad Sherman">>), V(<<"Pat Outsider">>)},
     hubspot_owner_name |-> {V(<<"56562506">>), V(<<"Brad Sherman">>)},
     activity_date |-> {V(<<2, 600>>)}]

\* the meetings the id map is built from: none, or one of a rep whose user
\* id is not in HUBSPOT_UID_TO_NAME
MapMeetings ==
    {NoFrame,
     Frame({"first_name", "last_name", "activity_assigned_to"},
           <<[first_name |-> V(<<"Brad">>), last_name |-> V(<<"Sherman">>),
              activity_assigned_to |-> V(<<"900">>)]>>)}

InitOwners ==
    /\ \E cols \in OwnerColumnSets :
        \E table \in Tables({cols}, OwnerColumnValues(cols), MaxOwnerRows) :
            \E tab_type \in TAB_TYPES, meetings \in MapMeetings :
                inp = [tab_type |-> tab_type, table |-> table, meetings |-> meetings]
    /\ df = inp.table
    /\ pc = "normalized"
    /\ ret = Nothing

BuildUidMap ==
    /\ pc = "normalized"
    /\ ret' = [uid_map |-> build_uid_map_from_meetings(inp.meetings)]
    /\ pc' = "uid_map"
    /\ UNCHANGED <<inp, df>>

ApplyOwnerMapping ==
    /\ pc = "uid_map"
    /\ df' = apply_owner_mapping(df, ret.uid_map, inp.tab_type)
    /\ pc' = "owner_mapped"
    /\ UNCHANGED <<inp, ret>>

NextOwners ==
    \/ BuildUidMap
    \/ ApplyOwnerMapping

SpecOwners == InitOwners /\ [][NextOwners]_vars

(***************************************************************************)
(* Properties of the owner mapping                                         *)
(***************************************************************************)
\* id_map.get(clean(raw_owner_id), ""): the name of the key that the id is,
\* trimmed and without the ".0" of a number read as a float
ResolvedOwner(id_map, cell) ==
    LET id == IF isna(cell) THEN "" ELSE Join(strip(cell[1]))
        keys == {k \in DOMAIN id_map : id = k \/ id = k \o ".0"}
    IN IF keys = {} THEN <<>> ELSE <<id_map[CHOOSE k \in keys : TRUE]>>

\* the rows of the table with their resolved owner, those without one
\* dropped when drop is set
ResolvedRows(drop) ==
    LET owner(i) == ResolvedOwner(ret.uid_map, inp.table.rows[i]["activity_assigned_to"])
        owned == assign(inp.table, "hubspot_owner_name",
                        [i \in DOMAIN inp.table.rows |-> V(owner(i))])
    IN loc(owned, [i \in DOMAIN inp.table.rows |-> ~drop \/ owner(i) # <<>>])

\* a non-empty table with a user id column was mapped
MappedById(tab_types) ==
    /\ pc = "owner_mapped"
    /\ inp.tab_type \in tab_types
    /\ "activity_assigned_to" \in inp.table.cols
    /\ ~empty(inp.table)

\* C20 as stated: the owners of calls, notes and emails are
\* id_map.get(clean(raw_owner_id), ""); the emails and notes without a
\* resolved owner are dropped, every call is kept.
C20_OwnersResolvedById ==
    /\ MappedById({"calls"}) =>
        /\ df = ResolvedRows(FALSE)
        /\ Len(df.rows) = Len(inp.table.rows)
    /\ MappedById({"notes", "emails"}) => df = ResolvedRows(TRUE)

\* C20 amended: the above for the calls, the notes, and the emails of a
\* table without name columns; the owner of an email of a table with the
\* columns first_name and last_name is the trimmed "first last", and the
\* emails whose last name is no rep's last name are dropped.
C20_OwnersResolvedByIdOrName ==
    /\ MappedById({"calls"}) =>
        /\ df = ResolvedRows(FALSE)
        /\ Len(df.rows) = Len(inp.table.rows)
    /\ MappedById({"notes"}) => df = ResolvedRows(TRUE)
    /\ MappedById({"emails"}) /\ "last_name" \notin inp.table.cols =>
        df = ResolvedRows(TRUE)
    /\ MappedById({"emails"}) /\ "last_name" \in inp.table.cols =>
        LET rep(r) == ~isna(r["last_name"]) /\ Join(strip(r["last_name"][1])) \in
                        {"Sherman", "Labombard", "Lynch", "Borkowski", "Gonzalez", "Mitton"}
            kept == {i \in DOMAIN inp.table.rows : rep(inp.table.rows[i])}
            first(r) == IF isna(r["first_name"]) THEN <<>> ELSE r["first_name"][1] \o <<" ">>
        IN /\ Len(df.rows) = Cardinality(kept)
           /\ \A k \in DOMAIN df.rows :
                /\ rep(df.rows[k])
                /\ df.rows[k]["hubspot_owner_name"] =
                        V(first(df.rows[k]) \o df.rows[k]["last_name"][1])

\* calls with the id of a rep written as a float and an id that is no key
\* of the map: both kept, one with the rep's name and one with the empty name
C20_Witness ==
    /\ MappedById({"calls"})
    /\ \E i, j \in DOMAIN df.rows :
        /\ df.rows[i]["activity_assigned_to"] = V(<<"56562506.0">>)
        /\ df.rows[i]["hubspot_owner_name"] = V(<<"Brad Sherman">>)
        /\ df.rows[j]["activity_assigned_to"] = V(<<"777">>)
        /\ df.rows[j]["hubspot_owner_name"] = V(<<>>)

(***************************************************************************)
(* count_activities on calls, meetings, emails and tasks.  The records of  *)
(* a run are drawn together; each goes to the table of its kind.           *)
(***************************************************************************)
MaxRecords == 2

RecordKinds == {"calls", "meetings", "emails", "done", "open"}

\* owner and date of a record
RecordOwners ==
    {<<V("Brad Sherman"), V(<<2, 600>>)>>, <<V("Brad Sherman"), V(<<8, 600>>)>>,
     <<V("Brad Sherman"), NaN>>, <<V("Lance Mitton"), V(<<2, 600>>)>>}

\* the tables of a run: all with a date column, the calls without, none
\* with one, and all with one but no emails argument
RunShapes == {"dated", "calls undated", "undated", "no emails"}

\* the row of a record: a task is done, or open and due on the day before
\* the evaluation
RecordRow(kind, od, dated) ==
    LET base == IF dated
                THEN [hubspot_owner_name |-> od[1], activity_date |-> od[2]]
                ELSE [hubspot_owner_name |-> od[1]]
        status == IF kind = "done" THEN V(<<"done">>) ELSE V(<<"Open">>)
    IN IF kind \in {"done", "open"}
       THEN IF dated
            THEN base @@ [task_status |-> status, due_date |-> V(<<9, 0>>)]
            ELSE base @@ [task_status |-> status]
       ELSE base

\* the table of the records of the kinds, in the order of the records
TableOf(records, kinds, dated) ==
    LET rows == SelectSeq(records, LAMBDA r : r[1] \in kinds)
        task == kinds = {"done", "open"}
        cols == {"hubspot_owner_name"}
                    \cup (IF dated THEN {"activity_date"} ELSE {})
                    \cup (IF task THEN {"task_status"} ELSE {})
                    \cup (IF task /\ dated THEN {"due_date"} ELSE {})
    IN Frame(cols, [i \in DOMAIN rows |-> RecordRow(rows[i][1], rows[i][2], dated)])

InitCounts ==
    /\ \E records \in SeqUpTo(RecordKinds \X RecordOwners, MaxRecords), shape \in RunShapes :
        inp = [calls |-> TableOf(records, {"calls"}, shape \in {"dated", "no emails"}),
               meetings |-> TableOf(records, {"meetings"}, shape # "undated"),
               tasks |-> TableOf(records, {"done", "open"}, shape # "undated"),
               emails |-> IF shape = "no emails" THEN NoTable
                          ELSE TableOf(records, {"emails"}, shape # "undated")]
    /\ df = Nothing
    /\ pc = "filtered"
    /\ ret = Nothing

SpecCounts == InitCounts /\ [][NextActivity]_vars

(***************************************************************************)
(* Properties of count_activities                                          *)
(***************************************************************************)
Grains == DOMAIN PERIOD_COLS

\* the period key of a date at a grain
PeriodKey(label, date) ==
    IF isna(date) THEN NaN
    ELSE IF label = "daily" THEN V(date[1][1])
    ELSE IF label = "weekly" THEN V(week_start(date[1][1]))
    ELSE V(month_start(date[1][1]))

\* the records behind a metric column: rows of an input table
SourceTable(metric) ==
    IF metric = "meetings" THEN inp.meetings
    ELSE IF metric = "calls" THEN inp.calls
    ELSE IF metric = "emails" THEN (IF is_none(inp.emails) THEN NoFrame ELSE inp.emails)
    ELSE inp.tasks

IsSourceRecord(metric, r) ==
    IF metric = "completed_tasks" THEN IsCompleted(r) \/ "task_status" \notin DOMAIN r
    ELSE IF metric = "overdue_tasks"
         THEN /\ "task_status" \in DOMAIN r
              /\ IsOverdueStatus(r) \/ (PastDue(r) /\ ~IsCompleted(r))
    ELSE TRUE

\* the date column the records of a table are bucketed by
BucketColumn(d) ==
    IF "activity_date" \in d.cols THEN "activity_date"
    ELSE IF "due_date" \in d.cols THEN "due_date" ELSE None

\* the source records of the metric with the owner and, at the grain, the
\* period key
SourceRecords(metric, label, owner, period) ==
    LET d == SourceTable(metric)
    IN IF BucketColumn(d) = None THEN {}
       ELSE {i \in DOMAIN d.rows :
                /\ IsSourceRecord(metric, d.rows[i])
                /\ d.rows[i]["hubspot_owner_name"] = owner
                /\ PeriodKey(label, d.rows[i][BucketColumn(d)]) = period}

\* the (owner, period) pairs of the sources at the grain
SourcePairs(label) ==
    UNION {LET d == SourceTable(METRIC_COLS[m])
           IN IF BucketColumn(d) = None THEN {}
              ELSE {<<d.rows[i]["hubspot_owner_name"],
                      PeriodKey(label, d.rows[i][BucketColumn(d)])>> :
                        i \in {j \in DOMAIN d.rows :
                                 IsSourceRecord(METRIC_COLS[m], d.rows[j])}} :
           m \in DOMAIN METRIC_COLS}

FixedColumns(label) ==
    {"hubspot_owner_name", PERIOD_COLS[label]} \cup {METRIC_COLS[m] : m \in DOMAIN METRIC_COLS}

\* C16: each of the three tables of count_activities has the columns owner,
\* period key and the five metrics, also when every input is empty or has
\* no date column, and without emails argument emails is 0 in every row.
C16_FixedColumnSet ==
    pc = "counted" =>
        /\ ~raised(df)
        /\ \A label \in Grains :
            /\ df[label].cols = FixedColumns(label)
            /\ is_none(inp.emails) => \A r \in DOMAIN df[label].rows : r["emails"] = 0

\* the tables that have a row have the fixed columns
FixedColumnSetWhenCounted ==
    pc = "counted" =>
        /\ ~raised(df)
        /\ \A label \in Grains :
            /\ SourcePairs(label) # {} => df[label].cols = FixedColumns(label)
            /\ SourcePairs(label) = {} => df[label].cols = {} /\ DOMAIN df[label].rows = {}
            /\ is_none(inp.emails) => \A r \in DOMAIN df[label].rows : r["emails"] = 0

\* C17: in each table every (owner, period) pair of a source, the period a
\* date, has exactly one row, and each count of the row is the number of
\* the source records of that kind with the pair, 0 for none.
C17_OneRowPerPairWithCounts ==
    pc = "counted" =>
        /\ ~raised(df)
        /\ \A label \in Grains : \A pair \in SourcePairs(label) :
            LET mine(r) == /\ r["hubspot_owner_name"] = pair[1]
                           /\ r[PERIOD_COLS[label]] = pair[2]
            IN ~isna(pair[2]) =>
               /\ RowsWhere(df[label].rows, mine) = 1
               /\ \A r \in DOMAIN df[label].rows :
                    mine(r) => \A m \in DOMAIN METRIC_COLS :
                        r[METRIC_COLS[m]] = Cardinality(
                            SourceRecords(METRIC_COLS[m], label, pair[1], pair[2]))

\* a meeting and a call of one rep on two days of one week: two rows of the
\* daily table, one row with both counts in the weekly table
C17_Witness ==
    /\ pc = "counted"
    /\ ~raised(df)
    /\ \E r \in DOMAIN df.weekly.rows :
        r["meetings"] = 1 /\ r["calls"] = 1 /\ r["emails"] = 0
    /\ \E r, q \in DOMAIN df.daily.rows :
        /\ r["meetings"] = 1 /\ r["calls"] = 0
        /\ q["meetings"] = 0 /\ q["calls"] = 1

\* C18: a record with a null date adds to no row of the count tables: no
\* table has a row with a null period key.
C18_NullDatesExcluded ==
    pc = "counted" /\ ~raised(df) =>
        \A label \in Grains : \A r \in DOMAIN df[label].rows :
            ~isna(r[PERIOD_COLS[label]])

(***************************************************************************)
(* main.py load_all from the normalized tables on: owner mapping, meeting  *)
(* deduplication, filters, metrics.  The cells of the normalized tables    *)
(* are texts; the filters compare names with the strings of REPS_IN_SCOPE  *)
(* and PIPELINES_IN_SCOPE, so the name columns are handed to them as the   *)
(* strings of their texts.  Of the result, the base tables and the metrics *)
(* modelled above are kept.                                                *)
(***************************************************************************)
MaxLoadRows == 2

\* the tabs of the sheet besides the deals, with the columns of each
LoadColumnValues ==
    [meetings |->
        [first_name |-> {V(<<"Brad">>)},
         last_name |-> {V(<<"Sherman">>), V(<<"Outsider">>)},
         activity_assigned_to |-> {V(<<"900">>)},
         meeting_name |-> {V(<<"Intro Call">>), V(<<"[Gong]", " ", "Intro Call">>)},
         meeting_start_time |-> {V(<<2, 600>>)}],
     calls |->
        [activity_assigned_to |-> {V(<<"56562506.0">>), V(<<"900">>), V(<<"777">>)},
         activity_date |-> {V(<<2, 600>>)}],
     emails |->
        [activity_assigned_to |-> {V(<<"56562506">>), V(<<"777">>)},
         email_subject |-> {V(<<"Pricing">>), V(<<"[Gong Out]", " ", "Pricing">>)},
         activity_date |-> {V(<<2, 600>>)},
         company_name |-> {V(<<"Acme">>)}],
     tasks |->
        [full_name |-> {V(<<"Brad Sherman">>), V(<<"Pat Outsider">>)},
         activity_date |-> {V(<<2, 600>>)}],
     tickets |->
        [first_name |-> {V(<<"Pat">>)},
         last_name |-> {V(<<"Sherman">>), V(<<"Outsider">>)}]]

DealRow(owner) ==
    [hubspot_owner_name |-> V(<<owner>>), pipeline |-> V(<<"Calyx Distribution">>),
     deal_stage |-> V(<<"Closed Won">>)]

\* no Deals tab, a deal of a rep in scope, and one more of a rep out of scope
LoadDeals ==
    {NoFrame,
     Frame({"hubspot_owner_name", "pipeline", "deal_stage"}, <<DealRow("Brad Sherman")>>),
     Frame({"hubspot_owner_name", "pipeline", "deal_stage"},
           <<DealRow("Pat Outsider"), DealRow("Brad Sherman")>>)}

\* the rows of the tabs, each with its tab
LoadRecords ==
    UNION {{tab} \X RowsOf(DOMAIN LoadColumnValues[tab], LoadColumnValues[tab]) :
            tab \in DOMAIN LoadColumnValues}

\* the table of a tab: its rows in the order of the records, pd.DataFrame()
\* for a tab without rows
TabTable(records, tab) ==
    LET rows == SelectSeq(records, LAMBDA r : r[1] = tab)
    IN IF rows = <<>> THEN NoFrame
       ELSE Frame(DOMAIN LoadColumnValues[tab], [i \in DOMAIN rows |-> rows[i][2]])

InitLoadAll ==
    /\ \E records \in SeqUpTo(LoadRecords, MaxLoadRows), deals \in LoadDeals :
        inp = [tab \in DOMAIN LoadColumnValues |-> TabTable(records, tab)]
                @@ [deals |-> deals]
    /\ df = inp
    /\ pc = "normalized"
    /\ ret = Nothing

\* norm[tab_type] = apply_owner_mapping(...) for the tabs that are not empty
owner_mapped(norm) ==
    LET uid_map == build_uid_map_from_meetings(norm.meetings)
    IN [tab \in DOMAIN norm |->
           IF ~empty(norm[tab]) THEN apply_owner_mapping(norm[tab], uid_map, tab)
           ELSE norm[tab]]

LoadOwnerMapping ==
    /\ pc = "normalized"
    /\ df' = owner_mapped(df)
    /\ pc' = "owner_mapped"
    /\ UNCHANGED <<inp, ret>>

LoadDeduplicate ==
    /\ pc = "owner_mapped"
    /\ df' = [df EXCEPT !.meetings = IF ~empty(@) THEN deduplicate_meetings(@) ELSE @]
    /\ pc' = "deduplicated"
    /\ UNCHANGED <<inp, ret>>

\* the name columns of a table as strings
NAME_COLUMNS ==
    {OWNER_CANDIDATES[i] : i \in DOMAIN OWNER_CANDIDATES} \cup {"pipeline", "deal_stage"}

as_strings(d) ==
    Frame(d.cols,
          [i \in DOMAIN d.rows |->
              [c \in d.cols |->
                  IF c \in NAME_COLUMNS /\ ~isna(d.rows[i][c])
                  THEN V(Join(d.rows[i][c][1])) ELSE d.rows[i][c]]])

\* the filtered base tables; there is no Notes tab, and the tickets are
\* taken as they are
filtered(norm) ==
    [deals |-> apply_deal_filters(as_strings(norm.deals)),
     meetings |-> apply_activity_filters(as_strings(norm.meetings)),
     tasks |-> apply_activity_filters(as_strings(norm.tasks)),
     calls |-> apply_activity_filters(as_strings(norm.calls)),
     emails |-> apply_activity_filters(as_strings(norm.emails)),
     notes |-> apply_activity_filters(NoFrame),
     tickets |-> norm.tickets]

LoadFilter ==
    /\ pc = "deduplicated"
    /\ df' = filtered(df)
    /\ pc' = "filtered"
    /\ UNCHANGED <<inp, ret>>

\* the AnalyticsData of the run, or the exception of the first metric that
\* raises
AnalyticsData(t, activity, rep_score) ==
    LET pipe == active_pipeline_value(t.deals)
        term == closed_won_vs_lost_by_rep(t.deals)
    IN IF raised(activity) THEN activity
       ELSE IF raised(rep_score) THEN rep_score
       ELSE IF raised(pipe) THEN pipe
       ELSE IF raised(win_rate(t.deals)) THEN win_rate(t.deals)
       ELSE IF raised(term) THEN term
       ELSE t @@ [activity_counts_daily |-> activity.daily,
                  activity_counts_weekly |-> activity.weekly,
                  activity_counts_monthly |-> activity.monthly,
                  rep_activity_score |-> rep_score,
                  active_pipeline_value |-> pipe,
                  win_rate |-> win_rate(t.deals),
                  closed_won_vs_lost |-> term]

\* the score of the weekly counts
weekly_score(activity) ==
    IF raised(activity) THEN activity
    ELSE compute_activity_score(as_frame(activity.weekly), "hubspot_owner_name")

LoadMetrics ==
    /\ pc = "filtered"
    /\ \E activity \in {count_activities(df.calls, df.meetings, df.tasks, df.emails)} :
        \E rep_score \in {weekly_score(activity)} :
            ret' = AnalyticsData(df, activity, rep_score)
    /\ pc' = "aggregated"
    /\ UNCHANGED <<inp, df>>

NextLoadAll ==
    \/ LoadOwnerMapping
    \/ LoadDeduplicate
    \/ LoadFilter
    \/ LoadMetrics

SpecLoadAll == InitLoadAll /\ [][NextLoadAll]_vars

(***************************************************************************)
(* Properties of load_all                                                  *)
(***************************************************************************)
BASE_TABLES == {"deals", "meetings", "tasks", "tickets", "calls", "emails", "notes"}

\* the owner name of a row of a base table of the result; the tickets keep
\* their texts
BaseOwnerName(tab, r) ==
    IF "hubspot_owner_name" \notin DOMAIN r \/ isna(r["hubspot_owner_name"]) THEN ""
    ELSE IF tab = "tickets" THEN Join(r["hubspot_owner_name"][1])
    ELSE r["hubspot_owner_name"][1]

\* C15: in the result of load_all every row of every base table (deals,
\* meetings, tasks, tickets, calls, emails, notes) has an owner name of
\* REPS_IN_SCOPE.
C15_BaseTablesInScope ==
    pc = "aggregated" /\ ~raised(ret) =>
        \A tab \in BASE_TABLES : \A i \in DOMAIN ret[tab].rows :
            BaseOwnerName(tab, ret[tab].rows[i]) \in REPS_IN_SCOPE

\* every base table but the tickets holds rows of reps in scope only
BaseTablesInScopeButTickets ==
    pc = "aggregated" /\ ~raised(ret) =>
        \A tab \in BASE_TABLES \ {"tickets"} : \A i \in DOMAIN ret[tab].rows :
            BaseOwnerName(tab, ret[tab].rows[i]) \in REPS_IN_SCOPE

\* the number of rows the deduplicator of a tab leaves of a table
DeduplicatedCount(tab, t) ==
    IF empty(t) THEN 0
    ELSE IF tab = "meetings" THEN Len(deduplicate_meetings(t).rows)
    ELSE Len(deduplicate_emails(t).rows)

\* C19: the stages follow one another in the order normalize, owner
\* resolution, deduplication, scope filter, aggregation, and the meetings and
\* the emails that reach the scope filter have passed through their
\* deduplicator: each of the two tables enters the filter with the rows its
\* deduplicator leaves of the owner-mapped table.
C19_DedupBeforeFilter ==
    /\ pc \in {"normalized", "owner_mapped", "deduplicated", "filtered", "aggregated"}
    /\ pc = "deduplicated" =>
        \A tab \in {"meetings", "emails"} :
            Len(df[tab].rows) = DeduplicatedCount(tab, owner_mapped(inp)[tab])

\* the stages in their order, the meetings deduplicated before the filter
StagesInOrderMeetingsDeduplicated ==
    /\ pc \in {"normalized", "owner_mapped", "deduplicated", "filtered", "aggregated"}
    /\ pc = "owner_mapped" => df = owner_mapped(inp)
    /\ pc \in {"filtered", "aggregated"} =>
        df.meetings = apply_activity_filters(as_strings(
            IF empty(owner_mapped(inp).meetings) THEN owner_mapped(inp).meetings
            ELSE deduplicate_meetings(owner_mapped(inp).meetings)))

(***************************************************************************)
(* Properties of the owner mapping: missing columns                        *)
(***************************************************************************)
OWNER_SOURCE_COLUMNS ==
    {"activity_assigned_to", "first_name", "last_name", "full_name",
     "owner_first_name", "owner_last_name"}

\* the owner field of a row is absent or empty
OwnerAbsentOrEmpty(r) ==
    "hubspot_owner_name" \notin DOMAIN r
        \/ isna(r["hubspot_owner_name"]) \/ r["hubspot_owner_name"] = V(<<>>)

\* C21: apply_owner_mapping never raises: for every tab type and every
\* non-empty table it returns a table, and for a table with none of the
\* owner id, first name, last name and full name columns and no owner name
\* the owner field of every row of the result is absent or empty.
C21_OwnerMappingNeverRaises ==
    pc = "owner_mapped" /\ ~empty(inp.table) =>
        /\ ~raised(df)
        /\ inp.table.cols \cap (OWNER_SOURCE_COLUMNS \cup {"hubspot_owner_name"}) = {} =>
            \A i \in DOMAIN df.rows : OwnerAbsentOrEmpty(df.rows[i])

\* the mapping raises for the calls without activity_assigned_to and
\* hubspot_owner_name only; for every other tab type a table without owner
\* columns comes back with the owner field absent or empty
OwnerMappingRaisesForCallsOnly ==
    pc = "owner_mapped" /\ ~empty(inp.table) =>
        /\ raised(df) <=>
            /\ inp.tab_type = "calls"
            /\ inp.table.cols \cap {"activity_assigned_to", "hubspot_owner_name"} = {}
        /\ ~raised(df)
             /\ inp.table.cols \cap (OWNER_SOURCE_COLUMNS \cup {"hubspot_owner_name"}) = {} =>
            \A i \in DOMAIN df.rows : OwnerAbsentOrEmpty(df.rows[i])

(***************************************************************************)
(* Properties of the meeting deduplication: groups and merged fields       *)
(***************************************************************************)
\* the triple of an input row: normalized name, calendar date of the start
\* time, owner name
MeetingTriple(i) ==
    <<_norm_meeting_name(inp.rows[i]["meeting_name"]),
      dt_date(inp.rows[i][MeetingDateCol]),
      IF "hubspot_owner_name" \in inp.cols
      THEN _safe_str(inp.rows[i]["hubspot_owner_name"]) ELSE <<>>>>

NamedMeetings == {i \in DOMAIN inp.rows : MeetingTriple(i)[1] # <<>>}

BlankMeetings == DOMAIN inp.rows \ NamedMeetings

\* the input rows of every output record: record g is made of the rows of
\* the g-th group
MeetingRecords ==
    LET groups == meeting_groups(inp, MeetingDateCol)
    IN list([g \in DOMAIN groups |->
                {groups[g].indices[k] : k \in DOMAIN groups[g].indices}])

\* the output records an input row went into
RecordsOf(records, i) == {g \in DOMAIN records : i \in records[g]}

\* the triple that an output record carries
RecordTriple(g) ==
    <<_norm_meeting_name(df.rows[g]["meeting_name"]),
      dt_date(df.rows[g][MeetingDateCol]),
      IF "hubspot_owner_name" \in df.cols
      THEN _safe_str(df.rows[g]["hubspot_owner_name"]) ELSE <<>>>>

\* C22: the rows with a non-empty normalized name are grouped by the triple
\* (normalized name, calendar date of the start time, owner name): there is
\* one output record per distinct triple, two named rows are in the same
\* output record exactly if their triples are equal, and the record carries
\* the date and the owner of the triple.
C22_NamedGroupedByTriple ==
    MeetingsGrouped =>
        LET records == MeetingRecords
        IN /\ Len(df.rows) = Len(records)
           /\ \A i \in NamedMeetings : Cardinality(RecordsOf(records, i)) = 1
           /\ \A i, j \in NamedMeetings :
                 RecordsOf(records, i) = RecordsOf(records, j)
                     <=> MeetingTriple(i) = MeetingTriple(j)
           /\ Cardinality(UNION {RecordsOf(records, i) : i \in NamedMeetings})
                 = Cardinality({MeetingTriple(i) : i \in NamedMeetings})
           /\ \A i \in NamedMeetings : \A g \in RecordsOf(records, i) :
                 /\ RecordTriple(g)[2] = MeetingTriple(i)[2]
                 /\ RecordTriple(g)[3] = MeetingTriple(i)[3]
                 /\ MeetingTriple(i)[1] # BlankName =>
                       RecordTriple(g)[1] = MeetingTriple(i)[1]

\* "[Gong] Intro Call" and "Google Meet: Intro Call" of one date and owner
\* went into one record
C22_Witness ==
    /\ MeetingsGrouped
    /\ Len(inp.rows) = 2
    /\ inp.rows[1]["meeting_name"] = V(<<"[Gong]", " ", "Intro Call">>)
    /\ inp.rows[2]["meeting_name"] = V(<<"Google Meet:", " ", "Intro Call">>)
    /\ MeetingTriple(1) = MeetingTriple(2)
    /\ Len(df.rows) = 1
    /\ RecordTriple(1) = MeetingTriple(1)

\* the company of an input row
MeetingCompany(i) ==
    IF "company_name" \in inp.cols THEN _safe_str(inp.rows[i]["company_name"]) ELSE <<>>

\* the named rows whose date, owner and non-blank company a blank row has
MatchesOf(i) ==
    {j \in NamedMeetings :
        /\ MeetingCompany(i) # <<>>
        /\ MeetingCompany(j) = MeetingCompany(i)
        /\ MeetingTriple(j)[2] = MeetingTriple(i)[2]
        /\ MeetingTriple(j)[3] = MeetingTriple(i)[3]}

\* C23: a blank-name row with the (date, owner, company) of a named group
\* is merged into that group; a blank-name row that matches no named group
\* is a group of its own and is emitted as its own record, merged with no
\* other row.
C23_BlankMatchedOrSingleton ==
    MeetingsGrouped =>
        LET records == MeetingRecords
        IN \A i \in BlankMeetings :
            /\ Cardinality(RecordsOf(records, i)) = 1
            /\ \A g \in RecordsOf(records, i) :
                /\ MatchesOf(i) # {} => records[g] \cap MatchesOf(i) # {}
                /\ MatchesOf(i) = {} => records[g] = {i}

\* a matched blank row is in the record of a named row it matches; an
\* unmatched one is in a record whose rows all have its date and owner
BlankMatchedOrGroupedByDateOwner ==
    MeetingsGrouped =>
        LET records == MeetingRecords
        IN \A i \in BlankMeetings :
            /\ Cardinality(RecordsOf(records, i)) = 1
            /\ \A g \in RecordsOf(records, i) :
                /\ MatchesOf(i) # {} => records[g] \cap MatchesOf(i) # {}
                /\ MatchesOf(i) = {} =>
                    \A j \in records[g] :
                        /\ MeetingTriple(j)[2] = MeetingTriple(i)[2]
                        /\ MeetingTriple(j)[3] = MeetingTriple(i)[3]
                        /\ MeetingTriple(j)[1] \in {<<>>, BlankName}

\* the fixed order of the outcomes, lowest first; a blank has rank 0
OUTCOME_ORDER == <<"Scheduled", "Rescheduled", "Canceled", "No Show", "Completed">>

OutcomeRankOf(cell) ==
    LET outcome == IF isna(cell) THEN "" ELSE Join(strip(cell[1]))
        ranks == {k \in DOMAIN OUTCOME_ORDER : OUTCOME_ORDER[k] = outcome}
    IN IF ranks = {} THEN 0 ELSE CHOOSE k \in ranks : TRUE

\* C24: the outcome of a record merged from more than one row is the
\* outcome of a row of the group, and no row of the group has an outcome of
\* a higher rank in the order Completed > No Show > Canceled > Rescheduled >
\* Scheduled > blank.
C24_MergedOutcomeHighestRank ==
    MeetingsGrouped /\ "meeting_outcome" \in inp.cols =>
        LET records == MeetingRecords
        IN \A g \in DOMAIN records :
            Cardinality(records[g]) > 1 =>
                /\ \E i \in records[g] :
                      fillna_str(df.rows[g]["meeting_outcome"])
                          = fillna_str(inp.rows[i]["meeting_outcome"])
                /\ \A i \in records[g] :
                      OutcomeRankOf(inp.rows[i]["meeting_outcome"])
                          <= OutcomeRankOf(df.rows[g]["meeting_outcome"])

\* a Rescheduled meeting followed by its Completed copy gave a Completed
\* record
C24_Witness ==
    /\ MeetingsGrouped
    /\ "meeting_outcome" \in inp.cols
    /\ Len(inp.rows) = 2
    /\ inp.rows[1]["meeting_outcome"] = V(<<"Rescheduled">>)
    /\ inp.rows[2]["meeting_outcome"] = V(<<"Completed">>)
    /\ Len(df.rows) = 1
    /\ df.rows[1]["meeting_outcome"] = V(<<"Completed">>)

\* a cell without a value: NaN, NaT or the empty string
EmptyCell(cell) == isna(cell) \/ cell = V(<<>>)

\* the value of a record's field is empty, or the value of the field in a
\* row of the record's group
TracedToGroup(rows, g, col) ==
    \/ EmptyCell(df.rows[g][col])
    \/ \E i \in rows : df.rows[g][col] = inp.rows[i][col]

\* the value of a record's field is the longest non-empty string of the
\* field in the record's group, empty if the group has none
LongestOfGroup(rows, g, col) ==
    /\ EmptyCell(df.rows[g][col]) => \A i \in rows : EmptyCell(inp.rows[i][col])
    /\ ~is_date_col(col) =>
        \A i \in rows :
            len(fillna_str(inp.rows[i][col])) <= len(fillna_str(df.rows[g][col]))

\* C25 as stated: every input row is in exactly one merge group, and every
\* field of an output record other than the name and the platform flag is
\* empty or the value of the field in a row of the record's group, the
\* longest non-empty one.
C25_FieldsLongestOfGroup ==
    MeetingsGrouped =>
        LET records == MeetingRecords
        IN /\ \A i \in DOMAIN inp.rows : Cardinality(RecordsOf(records, i)) = 1
           /\ \A g \in DOMAIN df.rows : \A col \in inp.cols \ {"meeting_name"} :
                 TracedToGroup(records[g], g, col) /\ LongestOfGroup(records[g], g, col)

\* C25 amended: every input row is in exactly one merge group, and every
\* field of an output record other than the name and the platform flag is
\* empty or the value of the field in a row of the record's group: the
\* longest non-empty one for the fields other than the outcome, for which
\* it is the one of the highest rank.
C25_FieldsTracedToGroup ==
    MeetingsGrouped =>
        LET records == MeetingRecords
        IN /\ \A i \in DOMAIN inp.rows : Cardinality(RecordsOf(records, i)) = 1
           /\ \A g \in DOMAIN df.rows : \A col \in inp.cols \ {"meeting_name"} :
                 /\ TracedToGroup(records[g], g, col)
                 /\ col # "meeting_outcome" => LongestOfGroup(records[g], g, col)
                 /\ col = "meeting_outcome" =>
                       \A i \in records[g] :
                           OutcomeRankOf(inp.rows[i][col]) <= OutcomeRankOf(df.rows[g][col])

\* a meeting without a company and its copy with the company Acme gave one
\* record with the company Acme
C25_Witness ==
    /\ MeetingsGrouped
    /\ "company_name" \in inp.cols
    /\ Len(inp.rows) = 2
    /\ isna(inp.rows[1]["company_name"])
    /\ inp.rows[2]["company_name"] = V(<<"Acme">>)
    /\ Len(df.rows) = 1
    /\ df.rows[1]["company_name"] = V(<<"Acme">>)

(***************************************************************************)
(* Properties of the email deduplication: threads                          *)
(***************************************************************************)
\* the lowercased root subject of an input row
RootSubject(i) == thread_subject(EmailKey(i).clean_subject)

\* the rows left by phase 1 that are in the thread of row i
ThreadOf(i) ==
    {j \in KeptByPhase1 :
        RootSubject(j) = RootSubject(i) /\ EmailKey(j).co = EmailKey(i).co}

\* the temporary columns of an output record
RecordKey(k) == email_keys(inp, EmailDateCol, df.rows[k])

\* the output records of the thread of row i
ThreadRecords(i) ==
    {k \in DOMAIN df.rows :
        /\ thread_subject(RecordKey(k).clean_subject) = RootSubject(i)
        /\ RecordKey(k).co = EmailKey(i).co}

\* both timestamps are dates and the first is after the second
DatedAfter(a, b) ==
    /\ ~isna(a)
    /\ ~isna(b)
    /\ \/ a[1][1] > b[1][1]
       \/ a[1][1] = b[1][1] /\ a[1][2] > b[1][2]

\* an output record is the input row j with the thread columns added
RecordIsRow(k, j) == \A col \in inp.cols : df.rows[k][col] = inp.rows[j][col]

\* C26: in phase 2 the records left by phase 1 that share a non-empty
\* (lowercased root subject, lowercased company) collapse to one output
\* record: a record of the thread with the latest date, whose thread_depth
\* is the number of the thread's records left by phase 1.  The records with
\* an empty root subject are not collapsed and have thread_depth 1.
C26_ThreadsCollapsed ==
    EmailsGrouped =>
        LET key == list([i \in DOMAIN inp.rows |-> EmailKey(i)])
            root == list([i \in DOMAIN inp.rows |->
                            thread_subject(key[i].clean_subject)])
            rkey == list([k \in DOMAIN df.rows |-> RecordKey(k)])
            rroot == list([k \in DOMAIN df.rows |->
                            thread_subject(rkey[k].clean_subject)])
            kept == KeptByPhase1
            thread(i) == {j \in kept : root[j] = root[i] /\ key[j].co = key[i].co}
            records(i) == {k \in DOMAIN df.rows :
                            rroot[k] = root[i] /\ rkey[k].co = key[i].co}
            threaded == {i \in kept : root[i] # <<>>}
            unthreaded == kept \ threaded
        IN /\ \A i \in threaded :
                /\ Cardinality(records(i)) = 1
                /\ \A k \in records(i) :
                    /\ df.rows[k]["thread_depth"] = Cardinality(thread(i))
                    /\ \E j \in thread(i) : RecordIsRow(k, j)
                    /\ \A j \in thread(i) :
                        /\ ~DatedAfter(key[j].dt, rkey[k].dt)
                        /\ isna(rkey[k].dt) => isna(key[j].dt)
           /\ Len(df.rows) = Cardinality({thread(i) : i \in threaded})
                                + Cardinality(unthreaded)
           /\ \A i \in unthreaded :
                \E k \in DOMAIN df.rows :
                    RecordIsRow(k, i) /\ df.rows[k]["thread_depth"] = 1
           /\ \A k \in DOMAIN df.rows :
                rroot[k] = <<>> => df.rows[k]["thread_depth"] = 1

\* an email and the later reply to it, of one company, gave one record of
\* depth 2 that is the reply
C26_Witness ==
    /\ EmailsGrouped
    /\ Len(inp.rows) = 2
    /\ inp.rows[1]["email_subject"] = V(<<"Pricing question">>)
    /\ inp.rows[2]["email_subject"] = V(<<"Re:", " ", "Pricing question">>)
    /\ DatedAfter(EmailKey(2).dt, EmailKey(1).dt)
    /\ Len(df.rows) = 1
    /\ RecordIsRow(1, 2)
    /\ df.rows[1]["thread_depth"] = 2


(***************************************************************************)
(* Properties of the email deduplication: reply prefixes                   *)
(***************************************************************************)
\* the spellings of a reply prefix in any case
REPLY_PREFIXES_ANY_CASE ==
    {"Re:", "RE:", "re:", "rE:", "Fwd:", "FWD:", "fwd:", "FW:", "Fw:", "fw:"}

\* a clean subject without its leading reply prefixes, whatever their case
\* and number, lowercased
RECURSIVE RootIgnoringCase(_)
RootIgnoringCase(t) ==
    IF t # <<>> /\ Head(t) \in REPLY_PREFIXES_ANY_CASE
    THEN RootIgnoringCase(lstrip(Tail(t)))
    ELSE lower(strip(t))

\* a clean subject without its leading reply prefixes in the four spellings
\* of the pattern
RECURSIVE RootExactCase(_)
RootExactCase(t) ==
    IF t # <<>> /\ Head(t) \in REPLY_PREFIXES
    THEN RootExactCase(lstrip(Tail(t)))
    ELSE lower(strip(t))

\* two rows left by phase 1 gave one and the same output record
OneThread(i, j) ==
    /\ ThreadRecords(i) = ThreadRecords(j)
    /\ Cardinality(ThreadRecords(i)) = 1

\* C27: subjects that differ only in the number or the case of their leading
\* reply prefixes have the same root subject and, with the same company,
\* collapse into one thread.
C27_PrefixesAnyCase ==
    EmailsGrouped =>
        \A i, j \in KeptByPhase1 :
            LET si == strip(EmailKey(i).clean_subject)
                sj == strip(EmailKey(j).clean_subject)
            IN (/\ RootIgnoringCase(si) = RootIgnoringCase(sj)
                /\ RootIgnoringCase(si) # <<>>
                /\ EmailKey(i).co = EmailKey(j).co)
                    => RootSubject(i) = RootSubject(j) /\ OneThread(i, j)

\* subjects that differ only in the number of leading Re:, Fwd:, FW: and Fw:
\* prefixes, spelled so, have the same root subject and, with the same
\* company, collapse into one thread
PrefixesExactCase ==
    EmailsGrouped =>
        \A i, j \in KeptByPhase1 :
            LET si == strip(EmailKey(i).clean_subject)
                sj == strip(EmailKey(j).clean_subject)
            IN (/\ RootExactCase(si) = RootExactCase(sj)
                /\ RootExactCase(si) # <<>>
                /\ EmailKey(i).co = EmailKey(j).co)
                    => RootSubject(i) = RootSubject(j) /\ OneThread(i, j)


(***************************************************************************)
(* A run of add_period_columns on a table of dated activity records        *)
(***************************************************************************)
MaxPeriodRows == 2

\* the days of the records: the Monday 2024-01-01 to the Monday 2024-01-08,
\* the ends of January and February, the first of February and of March
PeriodDays == (1..8) \cup {31, 32, 60, 61}

PeriodDates == {V(<<d, 600>>) : d \in PeriodDays} \cup {V(<<1, 0>>), NaN}

InitPeriods ==
    /\ \E dates \in SeqUpTo(PeriodDates, MaxPeriodRows) :
        inp = Frame({"activity_date"},
                    [i \in DOMAIN dates |-> [activity_date |-> dates[i]]])
    /\ df = Nothing
    /\ pc = "dates"
    /\ ret = Nothing

AddPeriodColumns ==
    /\ pc = "dates"
    /\ df' = add_period_columns(inp, "activity_date")
    /\ pc' = "periods"
    /\ UNCHANGED <<inp, ret>>

SpecPeriods == InitPeriods /\ [][AddPeriodColumns]_vars

(***************************************************************************)
(* Properties of add_period_columns                                        *)
(***************************************************************************)
\* the first day of the month of a day
IsMonthOf(m, day) ==
    /\ \E k \in DOMAIN MONTH_STARTS : MONTH_STARTS[k] = m
    /\ m <= day
    /\ \A k \in DOMAIN MONTH_STARTS : MONTH_STARTS[k] <= day => MONTH_STARTS[k] <= m

\* the records with a valid date have the calendar day and the first day
\* of the month as period_day and period_month
DayAndMonthKeys ==
    \A i \in DOMAIN df.rows :
        LET d == inp.rows[i]["activity_date"]
        IN ~isna(d) =>
            /\ df.rows[i]["period_day"] = V(d[1][1])
            /\ ~isna(df.rows[i]["period_month"])
            /\ IsMonthOf(df.rows[i]["period_month"][1], d[1][1])

\* the period_week of every record with a valid date is on the weekday (0
\* for a Monday), not after the day of the record and at most 6 days before
WeekKeysOn(wd) ==
    \A i \in DOMAIN df.rows :
        LET d == inp.rows[i]["activity_date"]
            w == df.rows[i]["period_week"]
        IN ~isna(d) =>
            /\ ~isna(w)
            /\ (w[1] - 1) % 7 = wd
            /\ w[1] <= d[1][1]
            /\ d[1][1] - w[1] <= 6

\* C28: for every record with a valid date d, period_week is the Monday of
\* the week containing d (a Monday, not after d, at most 6 days before d),
\* period_day is the calendar day of d and period_month the first day of
\* the month of d.
C28_WeekStartsMonday ==
    (pc = "periods" /\ ~empty(inp)) => WeekKeysOn(0) /\ DayAndMonthKeys

\* for every record with a valid date d, period_week is the Tuesday that is
\* at most 6 days before d or d itself, period_day is the calendar day of d
\* and period_month the first day of the month of d
WeekStartsTuesday ==
    (pc = "periods" /\ ~empty(inp)) => WeekKeysOn(1) /\ DayAndMonthKeys


(***************************************************************************)
(* The steps of apply_deal_filters taken one at a time, in any order, and  *)
(* the composite filter applied to the result once more.  pc is the list   *)
(* of the steps applied so far.                                            *)
(***************************************************************************)
MaxOrderDeals == 2

OrderColumnValues ==
    [hubspot_owner_name |-> {V("Brad Sherman"), V("Pat Outsider"), NaN},
     deal_owner |-> {V("Brad Sherman"), V("Pat Outsider"), NaN},
     pipeline |-> {V("Calyx Distribution"), V("Legacy Pipeline")},
     deal_stage |-> {V("Closed Won"), V("Negotiation")}]

OrderColumnSets ==
    {{"hubspot_owner_name", "pipeline", "deal_stage"},
     {"deal_owner", "pipeline", "deal_stage"},
     {"hubspot_owner_name", "deal_stage"},
     {"pipeline", "deal_stage"},
     {"hubspot_owner_name", "pipeline"}}

InitOrders ==
    /\ inp \in Tables(OrderColumnSets, OrderColumnValues, MaxOrderDeals)
    /\ df = inp
    /\ pc = <<>>
    /\ ret = Nothing

\* the steps applied so far
Applied == {pc[i] : i \in DOMAIN pc}

FilterByRep ==
    /\ Len(pc) < 3
    /\ "filter_by_rep" \notin Applied
    /\ df' = filter_by_rep(df, {})
    /\ pc' = Append(pc, "filter_by_rep")
    /\ UNCHANGED <<inp, ret>>

FilterByPipeline ==
    /\ Len(pc) < 3
    /\ "filter_by_pipeline" \notin Applied
    /\ df' = filter_by_pipeline(df, "pipeline", {})
    /\ pc' = Append(pc, "filter_by_pipeline")
    /\ UNCHANGED <<inp, ret>>

TagStages ==
    /\ Len(pc) < 3
    /\ "tag_terminal_stages" \notin Applied
    /\ df' = tag_terminal_stages(df, "deal_stage")
    /\ pc' = Append(pc, "tag_terminal_stages")
    /\ UNCHANGED <<inp, ret>>

ApplyDealFiltersAgain ==
    /\ Len(pc) = 3
    /\ df' = apply_deal_filters(df)
    /\ pc' = Append(pc, "apply_deal_filters")
    /\ UNCHANGED <<inp, ret>>

NextOrders ==
    \/ FilterByRep
    \/ FilterByPipeline
    \/ TagStages
    \/ ApplyDealFiltersAgain

SpecOrders == InitOrders /\ [][NextOrders]_vars

(***************************************************************************)
(* Properties of the composite deal filter: order and repetition           *)
(***************************************************************************)
\* C29: the three steps applied in any of the six orders leave the rows of
\* apply_deal_filters, with its is_terminal and terminal_status values, and
\* apply_deal_filters applied to its own result leaves the result as it is.
C29_OrderIndependentIdempotent ==
    /\ Len(pc) >= 3 => df.rows = apply_deal_filters(inp).rows
    /\ (Len(pc) >= 3 /\ df.rows # <<>>) => df = apply_deal_filters(inp)
    /\ (Len(pc) = 4 /\ SubSeq(pc, 1, 3) =
            <<"filter_by_rep", "filter_by_pipeline", "tag_terminal_stages">>)
        => df = apply_deal_filters(inp)

\* the tagging was the first step and the rep filter the last, a deal was
\* dropped and a terminal deal with the owner name taken from deal_owner is
\* left
C29_Witness ==
    /\ pc = <<"tag_terminal_stages", "filter_by_pipeline", "filter_by_rep">>
    /\ "deal_owner" \in inp.cols
    /\ Len(df.rows) >= 1
    /\ Len(df.rows) < Len(inp.rows)
    /\ \E i \in DOMAIN df.rows :
        /\ df.rows[i]["is_terminal"]
        /\ df.rows[i]["terminal_status"] = V("CLOSED_WON")
        /\ df.rows[i]["hubspot_owner_name"] = V("Brad Sherman")


(***************************************************************************)
(* Properties of count_activities: the counts across the grains            *)
(***************************************************************************)
\* the owners of the source records
SourceOwners ==
    UNION {{SourceTable(METRIC_COLS[m]).rows[i]["hubspot_owner_name"] :
                i \in DOMAIN SourceTable(METRIC_COLS[m]).rows} :
           m \in DOMAIN METRIC_COLS}

\* the sum of a metric over the rows of the owner in the table of a grain
GrainSum(label, metric, owner) ==
    LET rows == df[label].rows
    IN Sum([r \in {q \in DOMAIN rows : q["hubspot_owner_name"] = owner} |->
                r[metric] * rows[r]])

\* the number of the owner's source records of the kind that are in a table
\* with a date column
DatedRecords(metric, owner) ==
    LET d == SourceTable(metric)
    IN IF BucketColumn(d) = None THEN 0
       ELSE Cardinality({i \in DOMAIN d.rows :
                            /\ IsSourceRecord(metric, d.rows[i])
                            /\ d.rows[i]["hubspot_owner_name"] = owner})

\* C30: for each metric and each owner, the sum of the metric over the rows
\* of the daily table, of the weekly table and of the monthly table is the
\* same: the number of the owner's source records of that kind that have a
\* date column.
C30_CountsConserved ==
    pc = "counted" =>
        /\ ~raised(df)
        /\ \A m \in DOMAIN METRIC_COLS : \A owner \in SourceOwners :
            \A label \in Grains :
                GrainSum(label, METRIC_COLS[m], owner)
                    = DatedRecords(METRIC_COLS[m], owner)

\* two meetings of one rep on two days of one week: two rows of 1 in the
\* daily table, one row of 2 in the weekly table
C30_Witness ==
    /\ pc = "counted"
    /\ ~raised(df)
    /\ DatedRecords("meetings", V("Brad Sherman")) = 2
    /\ RowsWhere(df.daily.rows,
                 LAMBDA r : r["hubspot_owner_name"] = V("Brad Sherman")) = 2
    /\ RowsWhere(df.weekly.rows,
                 LAMBDA r : r["hubspot_owner_name"] = V("Brad Sherman")) = 1
    /\ \E r \in DOMAIN df.weekly.rows : r["meetings"] = 2

====
